---- MODULE Spec2Model ----
(***************************************************************************)
(* The gravitational N-body integrator of apps/three-body/tests.js:        *)
(* computeAccelerations, rk4Step, the diagnostics and runSimulation, and   *)
(* the bookkeeping of TestSuite.runAll with its runner run_tests.js.       *)
(*                                                                         *)
(* Numbers.  A JavaScript number is modelled as a fixed-point number: the  *)
(* integer a stands for a / SCALE.  Addition and subtraction are exact;    *)
(* multiplication, division and square root round their exact result to    *)
(* the nearest representable number (ties to even), one rounding per       *)
(* operation and in the order the source evaluates its expressions, as     *)
(* IEEE arithmetic does with a finer grid.  Equalities the source owes to  *)
(* exact arithmetic are therefore stated up to a stated number of units.   *)
(*                                                                         *)
(* Objects.  Every body object lives in `heap` at an address; an array of  *)
(* bodies is a sequence of addresses.  An object literal allocates a new   *)
(* address, so aliasing and in-place writes are visible in the model.  An  *)
(* object nothing refers to any more is collected: its cell becomes free   *)
(* and a later allocation may take it.  A live object never moves.         *)
(***************************************************************************)
EXTENDS Integers, Sequences, FiniteSets, TLC

(***************************************************************************)
(* Bounds of the model.                                                    *)
(***************************************************************************)
SCALE == 10000
MaxSteps == 3
MaxRuns == 2

(***************************************************************************)
(* Fixed-point arithmetic.                                                 *)
(***************************************************************************)
ONE == SCALE

Abs(a) == IF a < 0 THEN -a ELSE a

Sgn(a) == IF a < 0 THEN -1 ELSE 1

\* q + r/d rounded to the nearest integer, ties to even (0 <= r < d).
Nearest(q, r, d) == IF 2 * r > d \/ (2 * r = d /\ q % 2 = 1) THEN q + 1 ELSE q

\* x + y = carry * c + r for 0 <= x, y < c, without forming x + y.
AddMod(x, y, c) ==
    IF x >= c - y THEN [carry |-> 1, r |-> x - (c - y)] ELSE [carry |-> 0, r |-> x + y]

\* a * b = q * c + r without forming a * b (a, b >= 0, c > 0).
RECURSIVE MulDivMod(_, _, _)
MulDivMod(a, b, c) ==
    IF b = 0 THEN [q |-> 0, r |-> 0]
    ELSE LET h == MulDivMod(a, b \div 2, c)
             d == AddMod(h.r, h.r, c)
             e == AddMod(d.r, IF b % 2 = 1 THEN a % c ELSE 0, c)
         IN  [q |-> 2 * h.q + d.carry + e.carry + (IF b % 2 = 1 THEN a \div c ELSE 0),
              r |-> e.r]

\* The numeric literal n / d of the source text.
Lit(n, d) ==
    LET w == MulDivMod(Abs(n), SCALE, d) IN Sgn(n) * Nearest(w.q, w.r, d)

\* a * b
Mul(a, b) ==
    LET ah == Abs(a) \div SCALE
        al == Abs(a) % SCALE
        bh == Abs(b) \div SCALE
        bl == Abs(b) % SCALE
        whole == ah * bh * SCALE + ah * bl + al * bh + (al * bl) \div SCALE
    IN  Sgn(a) * Sgn(b) * Nearest(whole, (al * bl) % SCALE, SCALE)

\* a / b (b # 0)
Div(a, b) ==
    LET n == Abs(a) * SCALE
    IN  Sgn(a) * Sgn(b) * Nearest(n \div Abs(b), n % Abs(b), Abs(b))

RECURSIVE Isqrt(_, _, _)
Isqrt(n, lo, hi) ==
    IF lo >= hi THEN lo
    ELSE LET mid == (lo + hi + 1) \div 2
         IN  IF mid * mid <= n THEN Isqrt(n, mid, hi) ELSE Isqrt(n, lo, mid - 1)

\* Math.sqrt(a) (a >= 0)
Sqrt(a) ==
    LET n == a * SCALE
        k == Isqrt(n, 0, 46340)
    IN  IF n - k * k > k THEN k + 1 ELSE k

(***************************************************************************)
(* Constants of the source.                                                *)
(***************************************************************************)
G == Lit(1, 1)

\* Mutant of SOFTENING: a softening length of 0.1.
SOFTENING_tenth == Lit(1, 10)

SOFTENING == Lit(1, 100)

DefaultDt == Lit(1, 1000)

(***************************************************************************)
(* Heap of body objects.                                                   *)
(***************************************************************************)
\* A cell whose object was collected.
Free == [free |-> TRUE]

\* The first n addresses from a on that hold no object on heap h.
RECURSIVE firstFree(_, _, _)
firstFree(h, a, n) ==
    IF n = 0 THEN <<>>
    ELSE IF a > Len(h) THEN <<a>> \o firstFree(h, a + 1, n - 1)
    ELSE IF h[a] = Free THEN <<a>> \o firstFree(h, a + 1, n - 1)
    ELSE firstFree(h, a + 1, n)

\* The addresses of the n objects allocated next on heap h.
Fresh(h, n) == firstFree(h, 1, n)

\* The cells of heap h with the objects vals put at the addresses at.
Store(h, at, vals) ==
    <<>> \o [a \in 1..(IF at = <<>> \/ at[Len(at)] < Len(h) THEN Len(h) ELSE at[Len(at)]) |->
               IF \E k \in 1..Len(at) : at[k] = a
               THEN vals[CHOOSE k \in 1..Len(at) : at[k] = a]
               ELSE h[a]]

\* Heap h after allocating the objects vals, in order.
Alloc(h, vals) == Store(h, Fresh(h, Len(<<>> \o vals)), <<>> \o vals)

\* The addresses of an array.
Addrs(arr) == {arr[k] : k \in 1..Len(arr)}

\* Heap h after every object outside the addresses keep was collected.
Collect(h, keep) == <<>> \o [a \in 1..Len(h) |-> IF a \in keep THEN h[a] ELSE Free]

\* The values of the bodies of array arr on heap h.
Values(h, arr) == <<>> \o [k \in 1..Len(arr) |-> h[arr[k]]]

(***************************************************************************)
(* computeAccelerations                                                    *)
(***************************************************************************)
\* const r2 = dx * dx + dy * dy + SOFTENING * SOFTENING;
softR2(dx, dy) == Mul(dx, dx) + Mul(dy, dy) + Mul(SOFTENING, SOFTENING)

\* Mutant of forceFactor: G / r2, an inverse-square factor.
forceFactor_overR2(r2) == Div(G, r2)

\* Mutant of forceFactor: G / r2^2, an inverse-cube attraction.
forceFactor_overR4(r2) == Div(G, Mul(r2, r2))

\* const r = Math.sqrt(r2); const r3 = r2 * r; const f = G / r3;
forceFactor(r2) == Div(G, Mul(r2, Sqrt(r2)))

\* Mutant of accAddI: the body's own mass in place of the other body's.
accAddI_ownMass(acc, i, f, bi, bj, dx, dy) ==
    [acc EXCEPT ![i] = [ax |-> @.ax + Mul(Mul(f, bi.m), dx),
                        ay |-> @.ay + Mul(Mul(f, bi.m), dy)]]

\* acc[i].ax += f * bodies[j].m * dx;  acc[i].ay += f * bodies[j].m * dy;
accAddI(acc, i, f, bi, bj, dx, dy) ==
    [acc EXCEPT ![i] = [ax |-> @.ax + Mul(Mul(f, bj.m), dx),
                        ay |-> @.ay + Mul(Mul(f, bj.m), dy)]]

\* Mutant of accSubJ: the mass of body j in place of the mass of body i.
accSubJ_wrongMass(acc, j, f, bi, bj, dx, dy) ==
    [acc EXCEPT ![j] = [ax |-> @.ax - Mul(Mul(f, bj.m), dx),
                        ay |-> @.ay - Mul(Mul(f, bj.m), dy)]]

\* Mutant of accSubJ: += in place of -=.
accSubJ_plus(acc, j, f, bi, bj, dx, dy) ==
    [acc EXCEPT ![j] = [ax |-> @.ax + Mul(Mul(f, bi.m), dx),
                        ay |-> @.ay + Mul(Mul(f, bi.m), dy)]]

\* acc[j].ax -= f * bodies[i].m * dx;  acc[j].ay -= f * bodies[i].m * dy;
accSubJ(acc, j, f, bi, bj, dx, dy) ==
    [acc EXCEPT ![j] = [ax |-> @.ax - Mul(Mul(f, bi.m), dx),
                        ay |-> @.ay - Mul(Mul(f, bi.m), dy)]]

\* Mutant of pairStep: dx and dy taken from body j to body i.
pairStep_reversed(b, acc, i, j) ==
    LET dx == b[i].x - b[j].x
        dy == b[i].y - b[j].y
        f  == forceFactor(softR2(dx, dy))
    IN  accSubJ(accAddI(acc, i, f, b[i], b[j], dx, dy), j, f, b[i], b[j], dx, dy)

\* The body of the inner loop for the pair (i, j).
pairStep(b, acc, i, j) ==
    LET dx == b[j].x - b[i].x
        dy == b[j].y - b[i].y
        f  == forceFactor(softR2(dx, dy))
    IN  accSubJ(accAddI(acc, i, f, b[i], b[j], dx, dy), j, f, b[i], b[j], dx, dy)

\* Mutant of accLoop: the inner loop over every other body, from the first on.
RECURSIVE accLoop_everyOrder(_, _, _, _)
accLoop_everyOrder(b, acc, i, j) ==
    IF i > Len(b) THEN acc
    ELSE IF j > Len(b) THEN accLoop_everyOrder(b, acc, i + 1, 1)
    ELSE IF j = i THEN accLoop_everyOrder(b, acc, i, j + 1)
    ELSE accLoop_everyOrder(b, pairStep(b, acc, i, j), i, j + 1)

\* for (i = 0; i < n; i++) for (j = i + 1; j < n; j++), from the pair (i, j) on.
RECURSIVE accLoop(_, _, _, _)
accLoop(b, acc, i, j) ==
    IF i > Len(b) THEN acc
    ELSE IF j > Len(b) THEN accLoop(b, acc, i + 1, i + 2)
    ELSE accLoop(b, pairStep(b, acc, i, j), i, j + 1)

\* The evaluations of const f = G / r3 the loops make from the pair (i, j) on,
\* in order: the pair at hand, its dx and dy, and the factor.
RECURSIVE forceEvaluations(_, _, _, _)
forceEvaluations(b, ev, i, j) ==
    IF i > Len(b) THEN ev
    ELSE IF j > Len(b) THEN forceEvaluations(b, ev, i + 1, i + 2)
    ELSE forceEvaluations(b, Append(ev, [i  |-> i, j |-> j,
                                         dx |-> b[j].x - b[i].x,
                                         dy |-> b[j].y - b[i].y,
                                         f  |-> forceFactor(softR2(b[j].x - b[i].x,
                                                                   b[j].y - b[i].y))]),
                          i, j + 1)

computeAccelerations(h, bodies_) ==
    LET b == Values(h, bodies_)
    IN  accLoop(b, <<>> \o [k \in 1..Len(b) |-> [ax |-> 0, ay |-> 0]], 1, 2)

(***************************************************************************)
(* rk4Step                                                                 *)
(***************************************************************************)
\* Mutant of addState: the sums written into the objects of base, base returned.
addState_inPlace(h, base, delta, scale) ==
    [heap |-> <<>> \o [a \in 1..Len(h) |->
                  IF \E k \in 1..Len(base) : base[k] = a
                  THEN LET k == CHOOSE n \in 1..Len(base) : base[n] = a
                       IN  [x  |-> h[a].x  + Mul(delta[k].dx,  scale),
                            y  |-> h[a].y  + Mul(delta[k].dy,  scale),
                            vx |-> h[a].vx + Mul(delta[k].dvx, scale),
                            vy |-> h[a].vy + Mul(delta[k].dvy, scale),
                            m  |-> h[a].m]
                  ELSE h[a]],
     arr  |-> base]

\* Mutant of addState: the mass scaled like the other fields.
addState_scalesMass(h, base, delta, scale) ==
    [heap |-> Alloc(h, [k \in 1..Len(base) |->
                  [x  |-> h[base[k]].x  + Mul(delta[k].dx,  scale),
                   y  |-> h[base[k]].y  + Mul(delta[k].dy,  scale),
                   vx |-> h[base[k]].vx + Mul(delta[k].dvx, scale),
                   vy |-> h[base[k]].vy + Mul(delta[k].dvy, scale),
                   m  |-> Mul(h[base[k]].m, scale)]]),
     arr  |-> Fresh(h, Len(base))]

\* addState(base, delta, scale): a new array of new objects.
addState(h, base, delta, scale) ==
    [heap |-> Alloc(h, [k \in 1..Len(base) |->
                  [x  |-> h[base[k]].x  + Mul(delta[k].dx,  scale),
                   y  |-> h[base[k]].y  + Mul(delta[k].dy,  scale),
                   vx |-> h[base[k]].vx + Mul(delta[k].dvx, scale),
                   vy |-> h[base[k]].vy + Mul(delta[k].dvy, scale),
                   m  |-> h[base[k]].m]]),
     arr  |-> Fresh(h, Len(base))]

\* st.map((b, i) => ({dx: b.vx, dy: b.vy, dvx: acc[i].ax, dvy: acc[i].ay}))
deriv(h, st, acc) ==
    <<>> \o [k \in 1..Len(st) |-> [dx  |-> h[st[k]].vx, dy  |-> h[st[k]].vy,
                                  dvx |-> acc[k].ax,   dvy |-> acc[k].ay]]

\* Mutant of weighted: the sum divided by 8.
weighted_over8(a, b, c, d, dt_) ==
    Div(Mul(a + Mul(2 * ONE, b) + Mul(2 * ONE, c) + d, dt_), 8 * ONE)

\* Mutant of weighted: the four stages weighed alike.
weighted_alike(a, b, c, d, dt_) == Div(Mul(a + b + c + d, dt_), 6 * ONE)

\* (a + 2*b + 2*c + d) * dt / 6
weighted(a, b, c, d, dt_) ==
    Div(Mul(a + Mul(2 * ONE, b) + Mul(2 * ONE, c) + d, dt_), 6 * ONE)

\* Mutant of combine: the last body carried over as it was before the step.
combine_leavesLast(h, bodies_, k1, k2, k3, k4, dt_) ==
    [heap |-> Alloc(h, [k \in 1..Len(bodies_) |->
                  IF k = Len(bodies_) THEN h[bodies_[k]]
                  ELSE [x  |-> h[bodies_[k]].x
                                 + weighted(k1[k].dx, k2[k].dx, k3[k].dx, k4[k].dx, dt_),
                        y  |-> h[bodies_[k]].y
                                 + weighted(k1[k].dy, k2[k].dy, k3[k].dy, k4[k].dy, dt_),
                        vx |-> h[bodies_[k]].vx
                                 + weighted(k1[k].dvx, k2[k].dvx, k3[k].dvx, k4[k].dvx, dt_),
                        vy |-> h[bodies_[k]].vy
                                 + weighted(k1[k].dvy, k2[k].dvy, k3[k].dvy, k4[k].dvy, dt_),
                        m  |-> h[bodies_[k]].m]]),
     arr  |-> Fresh(h, Len(bodies_))]

\* The returned array: bodies.map((b, i) => ({x: b.x + (...) * dt / 6, ..., m: b.m}))
combine(h, bodies_, k1, k2, k3, k4, dt_) ==
    [heap |-> Alloc(h, [k \in 1..Len(bodies_) |->
                  [x  |-> h[bodies_[k]].x
                            + weighted(k1[k].dx, k2[k].dx, k3[k].dx, k4[k].dx, dt_),
                   y  |-> h[bodies_[k]].y
                            + weighted(k1[k].dy, k2[k].dy, k3[k].dy, k4[k].dy, dt_),
                   vx |-> h[bodies_[k]].vx
                            + weighted(k1[k].dvx, k2[k].dvx, k3[k].dvx, k4[k].dvx, dt_),
                   vy |-> h[bodies_[k]].vy
                            + weighted(k1[k].dvy, k2[k].dvy, k3[k].dvy, k4[k].dvy, dt_),
                   m  |-> h[bodies_[k]].m]]),
     arr  |-> Fresh(h, Len(bodies_))]

\* One stage: the stage state st on heap h and the derivative taken at it,
\* k = st.map((b, i) => ({dx: b.vx, dy: b.vy, dvx: acc[i].ax, dvy: acc[i].ay}))
\* with acc = computeAccelerations(st).
stageAt(h, st) ==
    [heap |-> h, arr |-> st, k |-> deriv(h, st, computeAccelerations(h, st)), evals |-> 1]

\* The value of rk4Step: the heap after the call, the returned array, and the
\* stage states and derivatives the call built on the way.
rk4Return(bodies_, dt_, s1, s2, s3, s4, out) ==
    [heap |-> out.heap, result |-> out.arr, input |-> bodies_,
     state2 |-> s2.arr, state3 |-> s3.arr, state4 |-> s4.arr,
     k1 |-> s1.k, k2 |-> s2.k, k3 |-> s3.k, k4 |-> s4.k,
     evals |-> s1.evals + s2.evals + s3.evals + s4.evals]

\* return bodies.map(...), after acc4 and k4.
rk4Combine(bodies_, dt_, s1, s2, s3, s4) ==
    rk4Return(bodies_, dt_, s1, s2, s3, s4,
              combine(s4.heap, bodies_, s1.k, s2.k, s3.k, s4.k, dt_))

\* const state4 = addState(bodies, k3, dt); acc4; k4
rk4Stage4(bodies_, dt_, s1, s2, s3) ==
    LET s == addState(s3.heap, bodies_, s3.k, dt_)
    IN  rk4Combine(bodies_, dt_, s1, s2, s3, stageAt(s.heap, s.arr))

\* Mutant of rk4Stage3: state3 built on state2 in place of the pre-step state.
rk4Stage3_onStage2(bodies_, dt_, s1, s2) ==
    LET s == addState(s2.heap, s2.arr, s2.k, Div(dt_, 2 * ONE))
    IN  rk4Stage4(bodies_, dt_, s1, s2, stageAt(s.heap, s.arr))

\* const state3 = addState(bodies, k2, dt / 2); acc3; k3
rk4Stage3(bodies_, dt_, s1, s2) ==
    LET s == addState(s2.heap, bodies_, s2.k, Div(dt_, 2 * ONE))
    IN  rk4Stage4(bodies_, dt_, s1, s2, stageAt(s.heap, s.arr))

\* The accelerations a derivative k was made of.
accOf(k) == <<>> \o [n \in 1..Len(k) |-> [ax |-> k[n].dvx, ay |-> k[n].dvy]]

\* Mutant of rk4Stage2: the second evaluation accumulates on top of the first
\* one's accumulator in place of a fresh one.
rk4Stage2_sharedAcc(bodies_, dt_, s1) ==
    LET s == addState(s1.heap, bodies_, s1.k, Div(dt_, 2 * ONE))
    IN  rk4Stage3(bodies_, dt_, s1,
                  [heap |-> s.heap, arr |-> s.arr, evals |-> 1,
                   k |-> deriv(s.heap, s.arr,
                               accLoop(Values(s.heap, s.arr), accOf(s1.k), 1, 2))])

\* const state2 = addState(bodies, k1, dt / 2); acc2; k2
rk4Stage2(bodies_, dt_, s1) ==
    LET s == addState(s1.heap, bodies_, s1.k, Div(dt_, 2 * ONE))
    IN  rk4Stage3(bodies_, dt_, s1, stageAt(s.heap, s.arr))

\* rk4Step(bodies, dt), from acc1 and k1 on.
rk4Step(h, bodies_, dt_) == rk4Stage2(bodies_, dt_, stageAt(h, bodies_))

(***************************************************************************)
(* Diagnostics                                                             *)
(***************************************************************************)
\* Mutant of energyR: the distance without softening.
energyR_unsoftened(dx, dy) == Sqrt(Mul(dx, dx) + Mul(dy, dy))

\* const r = Math.sqrt(dx * dx + dy * dy + SOFTENING * SOFTENING);
energyR(dx, dy) == Sqrt(Mul(dx, dx) + Mul(dy, dy) + Mul(SOFTENING, SOFTENING))

\* Mutant of keTerm: each velocity component times its magnitude, keeping its sign.
keTerm_signed(b) ==
    Mul(Mul(Lit(5, 10), b.m), Mul(b.vx, Abs(b.vx)) + Mul(b.vy, Abs(b.vy)))

\* KE += 0.5 * b.m * (b.vx * b.vx + b.vy * b.vy);
keTerm(b) == Mul(Mul(Lit(5, 10), b.m), Mul(b.vx, b.vx) + Mul(b.vy, b.vy))

\* PE -= G * b.m * bj.m / r, as the amount subtracted.
peTerm(b, bj) == Div(Mul(Mul(G, b.m), bj.m), energyR(bj.x - b.x, bj.y - b.y))

\* Mutant of energyLoop: PE += in place of PE -=.
RECURSIVE energyLoop_plus(_, _, _, _)
energyLoop_plus(b, e, i_, j) ==
    IF i_ > Len(b) THEN e
    ELSE IF j = 0 THEN energyLoop_plus(b, [e EXCEPT !.KE = @ + keTerm(b[i_])], i_, i_ + 1)
    ELSE IF j > Len(b) THEN energyLoop_plus(b, e, i_ + 1, 0)
    ELSE energyLoop_plus(b, [e EXCEPT !.PE = @ + peTerm(b[i_], b[j])], i_, j + 1)

\* The loops of calculateEnergy from the outer index i and inner index j on
\* (j = 0: the statements of the outer body before the inner loop).
RECURSIVE energyLoop(_, _, _, _)
energyLoop(b, e, i_, j) ==
    IF i_ > Len(b) THEN e
    ELSE IF j = 0 THEN energyLoop(b, [e EXCEPT !.KE = @ + keTerm(b[i_])], i_, i_ + 1)
    ELSE IF j > Len(b) THEN energyLoop(b, e, i_ + 1, 0)
    ELSE energyLoop(b, [e EXCEPT !.PE = @ - peTerm(b[i_], b[j])], i_, j + 1)

\* return { KE, PE, total: KE + PE };
energyResult(e) == [KE |-> e.KE, PE |-> e.PE, total |-> e.KE + e.PE]

calculateEnergy(h, bodies_) ==
    energyResult(energyLoop(Values(h, bodies_), [KE |-> 0, PE |-> 0], 1, 0))

\* for (const b of bodies) { px += b.m * b.vx; py += b.m * b.vy; }
RECURSIVE momentumLoop(_, _, _)
momentumLoop(b, p, k) ==
    IF k > Len(b) THEN p
    ELSE momentumLoop(b, [px |-> p.px + Mul(b[k].m, b[k].vx),
                          py |-> p.py + Mul(b[k].m, b[k].vy)], k + 1)

calculateMomentum(h, bodies_) ==
    momentumLoop(Values(h, bodies_), [px |-> 0, py |-> 0], 1)

\* Mutant of comLoop: the positions summed without their masses.
RECURSIVE comLoop_unweighted(_, _, _)
comLoop_unweighted(b, c, k) ==
    IF k > Len(b) THEN c
    ELSE comLoop_unweighted(b, [totalMass |-> c.totalMass + b[k].m,
                                cx |-> c.cx + b[k].x,
                                cy |-> c.cy + b[k].y], k + 1)

\* for (const b of bodies) { totalMass += b.m; cx += b.m * b.x; cy += b.m * b.y; }
RECURSIVE comLoop(_, _, _)
comLoop(b, c, k) ==
    IF k > Len(b) THEN c
    ELSE comLoop(b, [totalMass |-> c.totalMass + b[k].m,
                     cx |-> c.cx + Mul(b[k].m, b[k].x),
                     cy |-> c.cy + Mul(b[k].m, b[k].y)], k + 1)

\* The values of a / 0: NaN for 0 / 0, otherwise an infinity of the sign of a.
NaN == "NaN"

Infinity == "Infinity"

NegInfinity == "-Infinity"

\* a / b where b may be zero (a zero the source reaches here is +0).
divide(a, b) ==
    IF b # 0 THEN Div(a, b)
    ELSE IF a = 0 THEN NaN
    ELSE IF a > 0 THEN Infinity ELSE NegInfinity

\* return { x: cx / totalMass, y: cy / totalMass };
comResult(c) == [x |-> divide(c.cx, c.totalMass), y |-> divide(c.cy, c.totalMass)]

calculateCenterOfMass(h, bodies_) ==
    comResult(comLoop(Values(h, bodies_), [totalMass |-> 0, cx |-> 0, cy |-> 0], 1))

\* The distance of two bodies as the tests measure it:
\* Math.sqrt(Math.pow(b.x - a.x, 2) + Math.pow(b.y - a.y, 2)).
pairDistance(a, b) == Sqrt(Mul(b.x - a.x, b.x - a.x) + Mul(b.y - a.y, b.y - a.y))

\* const ratio = acc1[0].ax / acc2[0].ax;
accelerationRatio(acc1, acc2) == Div(acc1[1].ax, acc2[1].ax)

(***************************************************************************)
(* Inputs the caller may pass.                                             *)
(***************************************************************************)
Body(x_, y_, vx_, vy_, m_) == [x |-> x_, y |-> y_, vx |-> vx_, vy |-> vy_, m |-> m_]

\* Mutant of PRESETS: the third body of figure8 moving with the other two.
PRESETS_netMomentum ==
    [figure8 |->
        << Body(Lit(-97000436, 100000000), Lit(24308753, 100000000),
                Lit(466203685, 1000000000) , Lit(43236573, 100000000), Lit(1, 1)),
           Body(Lit(97000436, 100000000), Lit(-24308753, 100000000),
                Lit(466203685, 1000000000), Lit(43236573, 100000000), Lit(1, 1)),
           Body(0, 0, Lit(93240737, 100000000), Lit(86473146, 100000000), Lit(1, 1)) >>,
     lagrange |->
        << Body(0, Lit(1, 1), Lit(5, 10), 0, Lit(1, 1)),
           Body(Lit(-866, 1000), Lit(-5, 10), Lit(-25, 100), Lit(433, 1000), Lit(1, 1)),
           Body(Lit(866, 1000), Lit(-5, 10), Lit(-25, 100), Lit(-433, 1000), Lit(1, 1)) >>]

\* Mutant of PRESETS: the first body of lagrange twice as far from the origin.
PRESETS_scalene ==
    [figure8 |->
        << Body(Lit(-97000436, 100000000), Lit(24308753, 100000000),
                Lit(466203685, 1000000000) , Lit(43236573, 100000000), Lit(1, 1)),
           Body(Lit(97000436, 100000000), Lit(-24308753, 100000000),
                Lit(466203685, 1000000000), Lit(43236573, 100000000), Lit(1, 1)),
           Body(0, 0, Lit(-93240737, 100000000), Lit(-86473146, 100000000), Lit(1, 1)) >>,
     lagrange |->
        << Body(0, Lit(2, 1), Lit(5, 10), 0, Lit(1, 1)),
           Body(Lit(-866, 1000), Lit(-5, 10), Lit(-25, 100), Lit(433, 1000), Lit(1, 1)),
           Body(Lit(866, 1000), Lit(-5, 10), Lit(-25, 100), Lit(-433, 1000), Lit(1, 1)) >>]

PRESETS ==
    [figure8 |->
        << Body(Lit(-97000436, 100000000), Lit(24308753, 100000000),
                Lit(466203685, 1000000000) , Lit(43236573, 100000000), Lit(1, 1)),
           Body(Lit(97000436, 100000000), Lit(-24308753, 100000000),
                Lit(466203685, 1000000000), Lit(43236573, 100000000), Lit(1, 1)),
           Body(0, 0, Lit(-93240737, 100000000), Lit(-86473146, 100000000), Lit(1, 1)) >>,
     lagrange |->
        << Body(0, Lit(1, 1), Lit(5, 10), 0, Lit(1, 1)),
           Body(Lit(-866, 1000), Lit(-5, 10), Lit(-25, 100), Lit(433, 1000), Lit(1, 1)),
           Body(Lit(866, 1000), Lit(-5, 10), Lit(-25, 100), Lit(-433, 1000), Lit(1, 1)) >>]

Masses == {Lit(1, 1), Lit(3, 2)}

\* A body at position p[1], p[2] with velocity p[3], p[4].
Moving(p, m_) == Body(p[1], p[2], p[3], p[4], m_)

\* The bodies a caller may put at index 0, 1 and 2 of a custom System.
Slot1 ==
    {Moving(p, m_) : p \in {<<Lit(-1, 1), 0, 0, Lit(1, 2)>>,
                            <<Lit(-1, 2), Lit(1, 4), Lit(3, 10), Lit(-1, 5)>>},
                    m_ \in Masses}

Slot2 ==
    {Moving(p, m_) : p \in {<<Lit(1, 1), 0, 0, Lit(-1, 2)>>,
                            <<Lit(1, 2), Lit(-1, 4), Lit(-3, 10), Lit(1, 5)>>},
                    m_ \in Masses}

Slot3 ==
    {Moving(p, m_) : p \in {<<0, Lit(1, 1), 0, 0>>, <<0, Lit(1, 1), Lit(1, 10), 0>>},
                    m_ \in Masses}

\* testAccelerationMagnitude: two unit masses one and two units apart.
magnitudeBodies1 == << Body(0, 0, 0, 0, Lit(1, 1)), Body(Lit(1, 1), 0, 0, 0, Lit(1, 1)) >>

magnitudeBodies2 == << Body(0, 0, 0, 0, Lit(1, 1)), Body(Lit(2, 1), 0, 0, 0, Lit(1, 1)) >>

\* testAccelerationDirection: two unit masses at rest, two units apart along x.
directionBodies == << Body(0, 0, 0, 0, Lit(1, 1)), Body(Lit(2, 1), 0, 0, 0, Lit(1, 1)) >>

\* testCenterOfMassCalculation: unit masses at (0, 0), (2, 0) and (1, 1).
centerOfMassBodies ==
    << Body(0, 0, 0, 0, Lit(1, 1)), Body(Lit(2, 1), 0, 0, 0, Lit(1, 1)),
       Body(Lit(1, 1), Lit(1, 1), 0, 0, Lit(1, 1)) >>

\* The Systems the test suite builds by hand.
Fixtures ==
    {<< Body(Lit(-1, 1), 0, 0, 0, Lit(2, 1)), Body(Lit(1, 1), 0, 0, 0, Lit(3, 1)) >>,
     directionBodies, magnitudeBodies1, magnitudeBodies2, centerOfMassBodies}

Systems ==
    {PRESETS.figure8, PRESETS.lagrange} \cup Fixtures
        \cup {<<a, b>> : a \in Slot1, b \in Slot2}
        \cup {<<a, b, c>> : a \in Slot1, b \in Slot2, c \in Slot3}

\* The dt argument of runSimulation: <<>> when the caller leaves it out.
DtArgs == {<<>>, <<Lit(1, 10)>>}

\* Systems a caller that validates nothing may pass: no bodies, and pairs with
\* a mass of zero or below.
DegenerateSystems ==
    {<<>>}
        \cup {<< Body(Lit(-1, 1), 0, 0, Lit(1, 2), m1), Body(Lit(1, 1), 0, 0, Lit(-1, 2), m2) >> :
                 m1 \in {0, Lit(-1, 1)}, m2 \in {0, Lit(1, 1)}}

\* A System of one body, moving.
loneBody == << Body(Lit(-1, 2), Lit(1, 4), Lit(3, 10), Lit(-1, 5), Lit(1, 1)) >>

\* One call runSimulation(bodies, steps, dt) the caller is to make.
Call(b, n, d) == [bodies |-> b, steps |-> n, dtArg |-> d]

\* testRK4Convergence: the same simulated time at step 0.01 and at step 0.001.
convergenceCalls ==
    << Call(PRESETS.figure8, 100, <<Lit(1, 100)>>),
       Call(PRESETS.figure8, 1000, <<Lit(1, 1000)>>) >>

\* Short calls, on the presets, on one body and on the degenerate Systems.
ShortCalls ==
    {Call(b, n, d) : b \in {PRESETS.figure8, PRESETS.lagrange, loneBody} \cup DegenerateSystems,
                     n \in {0, MaxSteps}, d \in DtArgs}

\* The series of calls a caller makes one after another: those of
\* testRK4Convergence, and a call repeated after any other call.
Scripts == {convergenceCalls} \cup {<<a, b, a>> : a \in ShortCalls, b \in ShortCalls}

(***************************************************************************)
(* State.                                                                  *)
(***************************************************************************)
VARIABLES
    heap,     \* address -> body object
    bodies,   \* the caller's array (addresses)
    given,    \* the values of the caller's bodies when it built them
    steps,    \* the steps argument
    dtArg,    \* the dt argument (<<>>: left out)
    pc,       \* "call", "loop", "done"
    state,    \* runSimulation's local `state`
    dt,       \* runSimulation's parameter dt, default applied
    i,        \* runSimulation's loop counter
    last,     \* what the last rk4Step call built (calls = 0: none yet)
    todo,     \* the calls the caller is still to make after this one
    returned, \* what the calls made so far were given and returned
    diag,     \* the last diagnostic the caller took (<<>>: none yet)
    suite     \* the TestSuite object and the place of its runner

vars ==
    <<heap, bodies, given, steps, dtArg, pc, state, dt, i, last, todo, returned, diag, suite>>

\* const TestSuite = { passed: 0, failed: 0, results: [], ... }, runAll not yet
\* called.
NewSuite ==
    [passed |-> 0, failed |-> 0, results |-> <<>>, pc |-> "idle", next |-> 0,
     runs |-> 0, value |-> <<>>, status |-> <<>>]

NoCall ==
    [result |-> <<>>, input |-> <<>>, state2 |-> <<>>, state3 |-> <<>>,
     state4 |-> <<>>, k1 |-> <<>>, k2 |-> <<>>, k3 |-> <<>>, k4 |-> <<>>,
     dt |-> 0, evals |-> 0, before |-> <<>>, calls |-> 0]

Init ==
    /\ given \in Systems
    /\ heap = given
    /\ bodies = Fresh(<<>>, Len(given))
    /\ steps \in 0..MaxSteps
    /\ dtArg \in DtArgs
    /\ pc = "call"
    /\ state = <<>>
    /\ dt = 0
    /\ i = 0
    /\ last = NoCall
    /\ todo = <<>>
    /\ returned = <<>>
    /\ diag = <<>>
    /\ suite = NewSuite

\* A caller about to make the first call of a series.
DriverInit ==
    \E s \in Scripts :
        /\ given = s[1].bodies
        /\ heap = given
        /\ bodies = Fresh(<<>>, Len(given))
        /\ steps = s[1].steps
        /\ dtArg = s[1].dtArg
        /\ pc = "call"
        /\ state = <<>>
        /\ dt = 0
        /\ i = 0
        /\ last = NoCall
        /\ todo = Tail(s)
        /\ returned = <<>>
        /\ diag = <<>>
        /\ suite = NewSuite

\* JSON.parse(JSON.stringify(bodies)): new objects holding the own fields of each
\* body; a finite number is written and read back as the same number.
jsonCopy(h, arr) ==
    [heap |-> Alloc(h, [k \in 1..Len(arr) |->
                  [x |-> h[arr[k]].x, y |-> h[arr[k]].y, vx |-> h[arr[k]].vx,
                   vy |-> h[arr[k]].vy, m |-> h[arr[k]].m]]),
     arr  |-> Fresh(h, Len(arr))]

\* Mutant of Enter: a System with no bodies or a mass of zero or below is refused.
Enter_rejects ==
    /\ pc = "call"
    /\ LET c == jsonCopy(heap, bodies)
       IN  /\ heap' = c.heap
           /\ state' = c.arr
    /\ dt' = IF dtArg = <<>> THEN DefaultDt ELSE dtArg[1]
    /\ i' = 0
    /\ pc' = IF Len(bodies) = 0 \/ \E k \in 1..Len(bodies) : heap[bodies[k]].m <= 0
             THEN "rejected" ELSE "loop"
    /\ UNCHANGED <<bodies, given, steps, dtArg, last, todo, returned, diag, suite>>

\* Mutant of Enter: a call made after another goes on from where that one ended.
Enter_keepsState ==
    /\ pc = "call"
    /\ LET c == jsonCopy(heap, bodies)
       IN  /\ heap' = c.heap
           /\ state' = IF Len(state) = Len(bodies) /\ returned # <<>> THEN state ELSE c.arr
    /\ dt' = IF dtArg = <<>> THEN DefaultDt ELSE dtArg[1]
    /\ i' = 0
    /\ pc' = "loop"
    /\ UNCHANGED <<bodies, given, steps, dtArg, last, todo, returned, diag, suite>>

\* Mutant of Enter: the dt argument ignored, the default always used.
Enter_defaultDt ==
    /\ pc = "call"
    /\ LET c == jsonCopy(heap, bodies)
       IN  /\ heap' = c.heap
           /\ state' = c.arr
    /\ dt' = DefaultDt
    /\ i' = 0
    /\ pc' = "loop"
    /\ UNCHANGED <<bodies, given, steps, dtArg, last, todo, returned, diag, suite>>

\* runSimulation(bodies, steps, dt = 0.001), up to the loop.
Enter ==
    /\ pc = "call"
    /\ LET c == jsonCopy(heap, bodies)
       IN  /\ heap' = c.heap
           /\ state' = c.arr
    /\ dt' = IF dtArg = <<>> THEN DefaultDt ELSE dtArg[1]
    /\ i' = 0
    /\ pc' = "loop"
    /\ UNCHANGED <<bodies, given, steps, dtArg, last, todo, returned, diag, suite>>

\* What `last` keeps of the n-th rk4Step call, whose value is r: the arrays and
\* derivatives it built, and the values its argument held before the call.
callRecord(r, before, dt_, n) ==
    [result |-> r.result, input |-> r.input, state2 |-> r.state2,
     state3 |-> r.state3, state4 |-> r.state4, k1 |-> r.k1, k2 |-> r.k2,
     k3 |-> r.k3, k4 |-> r.k4, dt |-> dt_, evals |-> r.evals,
     before |-> before, calls |-> n]

\* The objects still referred to once rk4Step has returned r: the caller's
\* System and the arrays returned to it, and what the call built or was given.
Referred(r) ==
    Addrs(bodies) \cup UNION {Addrs(returned[k].arr) : k \in 1..Len(returned)}
        \cup Addrs(r.input) \cup Addrs(r.state2) \cup Addrs(r.state3)
        \cup Addrs(r.state4) \cup Addrs(r.result)

\* The loop body with r the value of rk4Step(state, dt).
stepTo(r) ==
    /\ heap' = Collect(r.heap, Referred(r))
    /\ state' = r.result
    /\ last' = callRecord(r, Values(heap, state), dt, last.calls + 1)

\* Mutant of Step: every iteration steps the caller's System again.
Step_fromInput ==
    /\ pc = "loop"
    /\ i < steps
    /\ stepTo(rk4Step(heap, bodies, dt))
    /\ i' = i + 1
    /\ UNCHANGED <<bodies, given, steps, dtArg, pc, dt, todo, returned, diag, suite>>

\* One iteration: state = rk4Step(state, dt); i++.
Step ==
    /\ pc = "loop"
    /\ i < steps
    /\ stepTo(rk4Step(heap, state, dt))
    /\ i' = i + 1
    /\ UNCHANGED <<bodies, given, steps, dtArg, pc, dt, todo, returned, diag, suite>>

\* The loop ends: return state.  The caller now holds the returned array next
\* to the arguments it passed.
Return ==
    /\ pc = "loop"
    /\ ~(i < steps)
    /\ pc' = "done"
    /\ returned' = Append(returned, [bodies |-> given, steps |-> steps, dtArg |-> dtArg,
                                     arr |-> state, result |-> Values(heap, state)])
    /\ UNCHANGED <<heap, bodies, given, steps, dtArg, state, dt, i, last, todo, diag, suite>>

Next == Enter \/ Step \/ Return

Spec == Init /\ [][Next]_vars

\* The caller builds the System of its next call and calls runSimulation again.
Again ==
    /\ pc = "done"
    /\ todo # <<>>
    /\ given' = Head(todo).bodies
    /\ heap' = Alloc(heap, Head(todo).bodies)
    /\ bodies' = Fresh(heap, Len(Head(todo).bodies))
    /\ steps' = Head(todo).steps
    /\ dtArg' = Head(todo).dtArg
    /\ todo' = Tail(todo)
    /\ pc' = "call"
    /\ UNCHANGED <<state, dt, i, last, returned, diag, suite>>

DriverNext == Enter \/ Step \/ Return \/ Again

\* A caller making a series of calls, on any System of numeric bodies.
DriverSpec == DriverInit /\ [][DriverNext]_vars

(***************************************************************************)
(* A caller that takes diagnostics of the System between the steps.        *)
(***************************************************************************)
Diagnostics == {"calculateEnergy", "calculateMomentum", "calculateCenterOfMass"}

\* Mutant of diagnose: the bodies are moved to put the center of mass at the
\* origin before the diagnostic is taken.
diagnose_recentres(h, arr, name) ==
    [heap  |-> <<>> \o [a \in 1..Len(h) |->
                   IF a \in Addrs(arr)
                   THEN [h[a] EXCEPT !.x = @ - calculateCenterOfMass(h, arr).x,
                                     !.y = @ - calculateCenterOfMass(h, arr).y]
                   ELSE h[a]],
     value |-> CASE name = "calculateEnergy" -> calculateEnergy(h, arr)
                 [] name = "calculateMomentum" -> calculateMomentum(h, arr)
                 [] name = "calculateCenterOfMass" -> calculateCenterOfMass(h, arr)]

\* A call of the diagnostic `name` on the array arr: the heap after the call (the
\* three functions assign to locals only) and the value returned.
diagnose(h, arr, name) ==
    [heap  |-> h,
     value |-> CASE name = "calculateEnergy" -> calculateEnergy(h, arr)
                 [] name = "calculateMomentum" -> calculateMomentum(h, arr)
                 [] name = "calculateCenterOfMass" -> calculateCenterOfMass(h, arr)]

\* The Systems of the runs diagnostics are taken of.
ObservedSystems ==
    {PRESETS.figure8, PRESETS.lagrange} \cup Fixtures
        \cup {<<a, b>> : a \in Slot1, b \in Slot2}

ObservedInit ==
    /\ given \in ObservedSystems
    /\ heap = given
    /\ bodies = Fresh(<<>>, Len(given))
    /\ steps \in 0..MaxSteps
    /\ dtArg \in DtArgs
    /\ pc = "call"
    /\ state = <<>>
    /\ dt = 0
    /\ i = 0
    /\ last = NoCall
    /\ todo = <<>>
    /\ returned = <<>>
    /\ diag = <<>>
    /\ suite = NewSuite

\* const energy = calculateEnergy(bodies), or one of the other two diagnostics,
\* taken of the System before a step, between two steps or after the last.
Diagnose ==
    /\ pc \in {"loop", "done"}
    /\ \E name \in Diagnostics :
          /\ heap' = diagnose(heap, state, name).heap
          /\ diag' = [name |-> name, at |-> i, value |-> diagnose(heap, state, name).value]
    /\ UNCHANGED <<bodies, given, steps, dtArg, pc, state, dt, i, last, todo, returned, suite>>

ObservedNext == Enter \/ Step \/ Return \/ Diagnose

ObservedSpec == ObservedInit /\ [][ObservedNext]_vars

(***************************************************************************)
(* TestSuite.runAll and the runner run_tests.js.                           *)
(***************************************************************************)
\* The tests runAll calls, in its order.
Tests ==
    << "testAccelerationSymmetry", "testAccelerationDirection",
       "testAccelerationMagnitude", "testEnergyConservation",
       "testKineticEnergyPositive", "testPotentialEnergyNegative",
       "testMomentumConservation", "testZeroNetMomentum",
       "testCenterOfMassStationary", "testCenterOfMassCalculation",
       "testRK4Stability", "testRK4Convergence", "testSensitiveDependence",
       "testFigure8Periodicity", "testFigure8Symmetry", "testLagrangeTriangle" >>

\* Mutant of assertTrue: a failed condition is recorded but not counted.
assertTrue_dropsFailure(t, condition, testName) ==
    [t EXCEPT !.results = Append(@, [name |-> testName, passed |-> condition]),
              !.passed = IF condition THEN @ + 1 ELSE @]

\* assertTrue(condition, testName, actual, expected): the result pushed (its name
\* and verdict; actual, expected and diff are only printed) and the counter of
\* its verdict raised.
assertTrue(t, condition, testName) ==
    [t EXCEPT !.results = Append(@, [name |-> testName, passed |-> condition]),
              !.passed = IF condition THEN @ + 1 ELSE @,
              !.failed = IF condition THEN @ ELSE @ + 1]

SuiteInit ==
    /\ given = <<>>
    /\ heap = <<>>
    /\ bodies = <<>>
    /\ steps = 0
    /\ dtArg = <<>>
    /\ pc = "done"
    /\ state = <<>>
    /\ dt = 0
    /\ i = 0
    /\ last = NoCall
    /\ todo = <<>>
    /\ returned = <<>>
    /\ diag = <<>>
    /\ suite = NewSuite

\* Mutant of RunAll: the counters and the results of the run before are kept.
RunAll_keepsCounters ==
    /\ suite.pc \in {"idle", "returned"}
    /\ suite.runs < MaxRuns
    /\ suite' = [suite EXCEPT !.pc = "running", !.next = 1, !.runs = @ + 1,
                              !.value = <<>>]
    /\ UNCHANGED <<heap, bodies, given, steps, dtArg, pc, state, dt, i, last, todo,
                   returned, diag>>

\* runAll() is called, for the first time or again: this.passed = 0;
\* this.failed = 0; this.results = [];  The call has no value before it returns.
RunAll ==
    /\ suite.pc \in {"idle", "returned"}
    /\ suite.runs < MaxRuns
    /\ suite' = [suite EXCEPT !.passed = 0, !.failed = 0, !.results = <<>>,
                              !.pc = "running", !.next = 1, !.runs = @ + 1,
                              !.value = <<>>]
    /\ UNCHANGED <<heap, bodies, given, steps, dtArg, pc, state, dt, i, last, todo,
                   returned, diag>>

\* The next test of runAll: it computes its condition, which the numbers make
\* true or false, and ends in its one call of assertTrue.
RunTest ==
    /\ suite.pc = "running"
    /\ suite.next <= Len(Tests)
    /\ \E condition \in BOOLEAN :
          suite' = [assertTrue(suite, condition, Tests[suite.next]) EXCEPT !.next = @ + 1]
    /\ UNCHANGED <<heap, bodies, given, steps, dtArg, pc, state, dt, i, last, todo,
                   returned, diag>>

\* return { passed: this.passed, failed: this.failed, results: this.results };
RunAllReturn ==
    /\ suite.pc = "running"
    /\ suite.next > Len(Tests)
    /\ suite' = [suite EXCEPT !.pc = "returned",
                              !.value = [passed |-> suite.passed, failed |-> suite.failed,
                                         results |-> suite.results]]
    /\ UNCHANGED <<heap, bodies, given, steps, dtArg, pc, state, dt, i, last, todo,
                   returned, diag>>

\* run_tests.js: process.exit(results.failed > 0 ? 1 : 0);
Exit ==
    /\ suite.pc = "returned"
    /\ suite' = [suite EXCEPT !.pc = "exited",
                              !.status = IF suite.value.failed > 0 THEN 1 ELSE 0]
    /\ UNCHANGED <<heap, bodies, given, steps, dtArg, pc, state, dt, i, last, todo,
                   returned, diag>>

SuiteNext == RunAll \/ RunTest \/ RunAllReturn \/ Exit

SuiteSpec == SuiteInit /\ [][SuiteNext]_vars

(***************************************************************************)
(* Properties.                                                             *)
(*                                                                         *)
(* Rounding budgets.  Every product, quotient and square root is off its   *)
(* exact value by at most half a unit (1 / SCALE).  Where the source owes   *)
(* an equality to exact arithmetic, the property bounds the difference by   *)
(* the half units the roundings on the way can add up to.                  *)
(***************************************************************************)
\* The least whole number n with n >= a / SCALE (a >= 0).
CeilOnes(a) == (a + SCALE - 1) \div SCALE

\* The arrays of bodies alive in the current state: the caller's, the local
\* `state`, and the stage states of the last rk4Step call.
LiveSystems ==
    {s \in {bodies, state, last.state2, last.state3, last.state4} : Len(s) > 0}

\* The caller's System as first built: `given` read as a heap of its own.
GivenArr == Fresh(<<>>, Len(given))

\* The sum of the masses of b[k], b[k + 1], ...
RECURSIVE TotalMass(_, _)
TotalMass(b, k) == IF k > Len(b) THEN 0 ELSE b[k].m + TotalMass(b, k + 1)

----------------------------------------------------------------------------
\* C1.  Newton's third law for a System of two bodies.
\* m_0 * acc[0] + m_1 * acc[1], formed as testAccelerationSymmetry forms it.
ThirdLawSum(h, sys) ==
    [x |-> Mul(h[sys[1]].m, computeAccelerations(h, sys)[1].ax)
             + Mul(h[sys[2]].m, computeAccelerations(h, sys)[2].ax),
     y |-> Mul(h[sys[1]].m, computeAccelerations(h, sys)[1].ay)
             + Mul(h[sys[2]].m, computeAccelerations(h, sys)[2].ay)]

\* Half units the roundings can add to the sum along a coordinate difference d:
\* f * m rounds once and is scaled by |d|, the product with d rounds once and is
\* scaled by the other mass, and each of the two final products rounds once.
ThirdLawHalfUnits(h, sys, d) ==
    CeilOnes(Mul(h[sys[1]].m + h[sys[2]].m, Abs(d) + ONE)) + 2

\* C1: for every System of exactly two bodies, with the positions and masses of
\* any reachable state, mass_0 * accel(0) + mass_1 * accel(1) is zero in x and in
\* y up to the rounding of the products.
C1_NewtonThirdLaw ==
    \A sys \in LiveSystems :
        Len(sys) = 2 =>
            /\ 2 * Abs(ThirdLawSum(heap, sys).x)
                  <= ThirdLawHalfUnits(heap, sys, heap[sys[2]].x - heap[sys[1]].x)
            /\ 2 * Abs(ThirdLawSum(heap, sys).y)
                  <= ThirdLawHalfUnits(heap, sys, heap[sys[2]].y - heap[sys[1]].y)

\* Two bodies of different mass, off both axes, after a step, pulling each other.
C1_Witness ==
    /\ pc = "done"
    /\ i >= 1
    /\ Len(state) = 2
    /\ heap[state[1]].m # heap[state[2]].m
    /\ computeAccelerations(heap, state)[1].ax > 0
    /\ computeAccelerations(heap, state)[1].ay # 0
    /\ computeAccelerations(heap, state)[2].ax < 0

----------------------------------------------------------------------------
\* C2.  Momentum conservation.
\* Units the momentum may drift in n steps from rounding alone: each step rounds
\* the weighted sum twice per body (at most 7/12 of a unit, times the mass), and
\* carries dt times the residue of the pairwise cancellation (below two units for
\* dt <= 0.1); calculateMomentum rounds one product per body at either end.
MomentumUnits(b, n) == Len(b) + n * (CeilOnes(TotalMass(b, 1)) + 2)

\* C2: after any number of rk4Step applications the total momentum that
\* calculateMomentum computes equals that of the initial System, up to rounding.
C2_MomentumConserved ==
    pc # "call" =>
        /\ Abs(calculateMomentum(heap, state).px - calculateMomentum(given, GivenArr).px)
              <= MomentumUnits(given, i)
        /\ Abs(calculateMomentum(heap, state).py - calculateMomentum(given, GivenArr).py)
              <= MomentumUnits(given, i)

\* Three bodies after the last step of a run at dt = 0.1, with every velocity
\* changed by the forces.
C2_Witness ==
    /\ pc = "done"
    /\ i = MaxSteps
    /\ dt = Lit(1, 10)
    /\ Len(state) = 3
    /\ \A k \in 1..3 : heap[state[k]].vx # given[k].vx /\ heap[state[k]].vy # given[k].vy
    /\ calculateMomentum(given, GivenArr).px # 0

----------------------------------------------------------------------------
\* C3.  Center-of-mass stationarity.
\* Units the center of mass may drift in n steps from rounding alone, for masses
\* of at least 1 and dt <= 0.1: two per step, and one product per body and one
\* quotient at either end.
CenterOfMassUnits(n) == 2 + 2 * n

----------------------------------------------------------------------------
\* C4.  The classical 4-stage Runge-Kutta scheme.
\* Per body, the velocity of st paired with the acceleration acc.
RK4_Pair(h, st, acc) ==
    <<>> \o [k \in 1..Len(st) |->
                [dx  |-> h[st[k]].vx, dy  |-> h[st[k]].vy,
                 dvx |-> acc[k].ax,   dvy |-> acc[k].ay]]

\* D(st): per body, the velocity of st and the acceleration at st's positions.
RK4_D(h, st) == RK4_Pair(h, st, computeAccelerations(h, st))

\* base + k * scale, per body and component, mass carried over.
RK4_Plus(base, k, scale) ==
    <<>> \o [n \in 1..Len(base) |->
                [x  |-> base[n].x  + Mul(k[n].dx,  scale),
                 y  |-> base[n].y  + Mul(k[n].dy,  scale),
                 vx |-> base[n].vx + Mul(k[n].dvx, scale),
                 vy |-> base[n].vy + Mul(k[n].dvy, scale),
                 m  |-> base[n].m]]

\* (k1 + 2*k2 + 2*k3 + k4) * dt / 6 for one component.
RK4_Sixth(a1, a2, a3, a4, d) == Div(Mul(a1 + 2 * a2 + 2 * a3 + a4, d), 6 * ONE)

\* base + (k1 + 2*k2 + 2*k3 + k4) * dt / 6
RK4_Result(base, k1, k2, k3, k4, d) ==
    <<>> \o [n \in 1..Len(base) |->
                [x  |-> base[n].x  + RK4_Sixth(k1[n].dx, k2[n].dx, k3[n].dx, k4[n].dx, d),
                 y  |-> base[n].y  + RK4_Sixth(k1[n].dy, k2[n].dy, k3[n].dy, k4[n].dy, d),
                 vx |-> base[n].vx + RK4_Sixth(k1[n].dvx, k2[n].dvx, k3[n].dvx, k4[n].dvx, d),
                 vy |-> base[n].vy + RK4_Sixth(k1[n].dvy, k2[n].dvy, k3[n].dvy, k4[n].dvy, d),
                 m  |-> base[n].m]]

\* C4: every rk4Step call takes k1 = D(state), k2 = D(state + k1*dt/2),
\* k3 = D(state + k2*dt/2), k4 = D(state + k3*dt) and returns
\* state + (k1 + 2*k2 + 2*k3 + k4)*dt/6, with four derivative evaluations, every
\* stage state built on the pre-step state.
C4_ClassicalRK4 ==
    last.calls > 0 =>
        /\ last.k1 = RK4_D(heap, last.input)
        /\ Values(heap, last.state2)
              = RK4_Plus(last.before, last.k1, Div(last.dt, 2 * ONE))
        /\ last.k2 = RK4_D(heap, last.state2)
        /\ Values(heap, last.state3)
              = RK4_Plus(last.before, last.k2, Div(last.dt, 2 * ONE))
        /\ last.k3 = RK4_D(heap, last.state3)
        /\ Values(heap, last.state4) = RK4_Plus(last.before, last.k3, last.dt)
        /\ last.k4 = RK4_D(heap, last.state4)
        /\ Values(heap, last.result)
              = RK4_Result(last.before, last.k1, last.k2, last.k3, last.k4, last.dt)
        /\ last.evals = 4

\* A call on three bodies at dt = 0.1 whose four derivatives all differ and whose
\* stage states differ from one another.
C4_Witness ==
    /\ last.calls = MaxSteps
    /\ last.dt = Lit(1, 10)
    /\ Len(last.input) = 3
    /\ Cardinality({last.k1, last.k2, last.k3, last.k4}) = 4
    /\ Cardinality({Values(heap, last.state2), Values(heap, last.state3),
                     Values(heap, last.state4), last.before}) = 4

----------------------------------------------------------------------------
\* C5.  The force law.
\* r_ij^2 = dx^2 + dy^2 + eps^2
ForceLaw_r2(dx, dy) == Mul(dx, dx) + Mul(dy, dy) + Mul(SOFTENING, SOFTENING)

\* G / r^3 for r = sqrt(r2), r^3 taken as r^2 * r.
ForceLaw_fOf(r2) == Div(G, Mul(r2, Sqrt(r2)))

\* f_ij = G / r_ij^3
ForceLaw_f(bi, bj) == ForceLaw_fOf(ForceLaw_r2(bj.x - bi.x, bj.y - bi.y))

\* sum + f * mass_j * (x_j - x_i, y_j - y_i)
ForceLaw_Add(sum, f, bi, bj) ==
    [ax |-> sum.ax + Mul(Mul(f, bj.m), bj.x - bi.x),
     ay |-> sum.ay + Mul(Mul(f, bj.m), bj.y - bi.y)]

\* sum plus the sum over j # n, j >= from, of f_nj * mass_j * (x_j - x_n, y_j - y_n).
RECURSIVE ForceLaw_Sum(_, _, _, _)
ForceLaw_Sum(b, n, from, sum) ==
    IF from > Len(b) THEN sum
    ELSE IF from = n THEN ForceLaw_Sum(b, n, from + 1, sum)
    ELSE ForceLaw_Sum(b, n, from + 1,
                      ForceLaw_Add(sum, ForceLaw_f(b[n], b[from]), b[n], b[from]))

\* The accelerations the force law gives the bodies b.
ForceLaw_All(b) ==
    <<>> \o [n \in 1..Len(b) |-> ForceLaw_Sum(b, n, 1, [ax |-> 0, ay |-> 0])]

\* C5: for every System and every body n, computeAccelerations returns the sum
\* over all j # n of f_nj * mass_j * (x_j - x_n, y_j - y_n).
C5_ForceLaw ==
    \A sys \in LiveSystems :
        computeAccelerations(heap, sys) = ForceLaw_All(Values(heap, sys))

\* Three bodies of unequal mass after a step, each pulled by both others.
C5_Witness ==
    /\ i >= 1
    /\ Len(state) = 3
    /\ Cardinality({heap[state[k]].m : k \in 1..3}) > 1
    /\ \A n \in 1..3 :
          /\ computeAccelerations(heap, state)[n].ax # 0
          /\ computeAccelerations(heap, state)[n].ay # 0
          /\ \A j \in 1..3 \ {n} : ForceLaw_f(heap[state[n]], heap[state[j]]) > 0

----------------------------------------------------------------------------
\* C6.  The constants of the force law.
\* The force evaluation of a pair at coordinate differences (dx, dy) uses the
\* gravitational constant g and the softening length eps.
PairUses(g, eps, dx, dy, r2) ==
    /\ r2 = Mul(dx, dx) + Mul(dy, dy) + Mul(eps, eps)
    /\ forceFactor(r2) = Div(g, Mul(r2, Sqrt(r2)))

\* Every pair of every live System is weighed with gravitational constant g and
\* softening length eps.
ForceEvaluationsUse(g, eps) ==
    \A sys \in LiveSystems :
        \A n \in 1..Len(sys) : \A j \in (n + 1)..Len(sys) :
            PairUses(g, eps, heap[sys[j]].x - heap[sys[n]].x,
                     heap[sys[j]].y - heap[sys[n]].y,
                     softR2(heap[sys[j]].x - heap[sys[n]].x,
                            heap[sys[j]].y - heap[sys[n]].y))

\* C6 as stated: G = 1.0 and eps = 0.1 in every state, seen by every force
\* evaluation.
C6_ConstantsAsStated ==
    /\ G = Lit(1, 1)
    /\ SOFTENING = Lit(1, 10)
    /\ ForceEvaluationsUse(Lit(1, 1), Lit(1, 10))

\* C6 as amended: G = 1.0 and eps = 0.01 in every state, seen by every force
\* evaluation of every step.
C6_ConstantsAmended ==
    /\ G = Lit(1, 1)
    /\ SOFTENING = Lit(1, 100)
    /\ ForceEvaluationsUse(Lit(1, 1), Lit(1, 100))

\* The stage states of a second step are alive: its force evaluations are in view.
C6_Witness ==
    /\ last.calls >= 2
    /\ Len(last.state4) = 3
    /\ {last.state2, last.state3, last.state4} \subseteq LiveSystems

----------------------------------------------------------------------------
\* C7.  The Stepper never mutates in place.
\* The arrays share no object, and no array holds an object twice.
NoSharing(arrs) ==
    /\ \A a \in arrs : Cardinality(Addrs(a)) = Len(a)
    /\ \A a, b \in arrs : a # b => Addrs(a) \cap Addrs(b) = {}

\* C7: after rk4Step returns, every body of its input holds the values it held
\* before the call; the input, the three stage states and the returned System
\* are distinct arrays sharing no body; and the caller's System holds the values
\* it was built with, whatever runSimulation has done.
C7_NoMutation ==
    /\ Values(heap, bodies) = given
    /\ last.calls > 0 =>
          /\ Values(heap, last.input) = last.before
          /\ Cardinality({last.input, last.state2, last.state3, last.state4,
                           last.result}) = 5
          /\ NoSharing({last.input, last.state2, last.state3, last.state4,
                         last.result})

\* A run has returned after a step that gave every body new values.
C7_Witness ==
    /\ pc = "done"
    /\ last.calls >= 1
    /\ \A k \in 1..Len(last.input) :
          /\ heap[last.result[k]].x # last.before[k].x
          /\ heap[last.result[k]].vx # last.before[k].vx
          /\ heap[last.state2[k]].x # last.before[k].x

----------------------------------------------------------------------------
\* C8.  Mass and shape are carried through.
\* C8: the local System and every stage state have as many bodies as the initial
\* System, the body at index k has the mass of the initial body at index k, and
\* the total mass stays positive if it was.
C8_MassAndShape ==
    \A sys \in LiveSystems :
        /\ Len(sys) = Len(given)
        /\ \A k \in 1..Len(sys) : heap[sys[k]].m = given[k].m
        /\ TotalMass(given, 1) > 0 => TotalMass(Values(heap, sys), 1) > 0

\* Three bodies, not all of one mass, after the last step, every body moved.
C8_Witness ==
    /\ pc = "done"
    /\ i = MaxSteps
    /\ Len(state) = 3
    /\ Cardinality({given[k].m : k \in 1..3}) = 2
    /\ \A k \in 1..3 : heap[state[k]].x # given[k].x \/ heap[state[k]].y # given[k].y
    /\ {last.state2, last.state3, last.state4} \subseteq LiveSystems

----------------------------------------------------------------------------
\* C9.  advance(n_steps).
\* The values rk4Step returns for the System of values v.
StepValues(v, d) ==
    Values(rk4Step(v, Fresh(<<>>, Len(v)), d).heap,
           rk4Step(v, Fresh(<<>>, Len(v)), d).result)

\* rk4Step applied n times in sequence, each on the output of the one before.
RECURSIVE Iterated(_, _, _)
Iterated(v, n, d) == IF n = 0 THEN v ELSE Iterated(StepValues(v, d), n - 1, d)

\* The dt a call with argument list entry a runs with.
DtOf(a) == IF a = <<>> THEN Lit(1, 1000) ELSE a[1]

\* What runSimulation returns is rk4Step applied n times in sequence to the
\* initial System (the initial System itself, in new objects, for n = 0).
ReturnsIterated ==
    pc = "done" =>
        /\ i = steps
        /\ last.calls = steps
        /\ Values(heap, state) = Iterated(given, steps, DtOf(dtArg))

\* C9: runSimulation(bodies, n, dt) returns rk4Step applied n times in sequence,
\* and it terminates: the call is at one of its three places, the loop counter
\* never passes n, and every iteration that stays in the loop brings it closer
\* to n.
C9_AdvanceNSteps ==
    /\ [](pc \in {"call", "loop", "done"} /\ i <= steps /\ ReturnsIterated)
    /\ [][pc = "loop" /\ pc' = "loop" => steps' - i' < steps - i]_vars

\* Runs of no step and of the most steps have returned, the latter with every
\* step changing the System.
C9_Witness ==
    /\ pc = "done"
    /\ steps = MaxSteps
    /\ Values(heap, state) # Iterated(given, MaxSteps - 1, DtOf(dtArg))
    /\ Values(heap, state) # given

----------------------------------------------------------------------------
\* C10.  calculateEnergy.
\* 1/2 * m * (vx^2 + vy^2), summed over the bodies k, k + 1, ...
RECURSIVE Energy_KE(_, _)
Energy_KE(b, k) ==
    IF k > Len(b) THEN 0
    ELSE Mul(Mul(Lit(1, 2), b[k].m), Mul(b[k].vx, b[k].vx) + Mul(b[k].vy, b[k].vy))
           + Energy_KE(b, k + 1)

\* G * m_n * m_j / r_nj with r_nj the softened distance of the force law.
Energy_Pair(bn, bj) ==
    Div(Mul(Mul(G, bn.m), bj.m), Sqrt(softR2(bj.x - bn.x, bj.y - bn.y)))

\* The pairs {n, j} with n < j, each once.
Energy_Pairs(b) == {p \in (1..Len(b)) \X (1..Len(b)) : p[1] < p[2]}

\* The sum of Energy_Pair over the pairs ps.
RECURSIVE Energy_SumOver(_, _)
Energy_SumOver(b, ps) ==
    IF ps = {} THEN 0
    ELSE LET p == CHOOSE q \in ps : TRUE
         IN  Energy_Pair(b[p[1]], b[p[2]]) + Energy_SumOver(b, ps \ {p})

\* e is the energy of the bodies b.
Energy_Is(e, b) ==
    /\ e.KE = Energy_KE(b, 1)
    /\ e.PE = 0 - Energy_SumOver(b, Energy_Pairs(b))
    /\ e.total = e.KE + e.PE

\* C10: calculateEnergy returns KE = sum of 1/2 * m * (vx^2 + vy^2), PE = minus
\* the sum over every unordered pair, each once, of G * m_i * m_j / r_ij with the
\* softened distance computeAccelerations uses, and total = KE + PE.
C10_Energy ==
    \A sys \in LiveSystems :
        Energy_Is(calculateEnergy(heap, sys), Values(heap, sys))

\* Three moving bodies of unequal mass after a step: three pairs, all bound.
C10_Witness ==
    /\ i >= 1
    /\ Len(state) = 3
    /\ Cardinality({heap[state[k]].m : k \in 1..3}) = 2
    /\ calculateEnergy(heap, state).KE > 0
    /\ calculateEnergy(heap, state).PE < 0
    /\ calculateEnergy(heap, state).total < 0
    /\ Cardinality(Energy_Pairs(Values(heap, state))) = 3

----------------------------------------------------------------------------
\* C11.  calculateCenterOfMass.
\* The exact sums of m * x, m * y (in units of 1 / SCALE^2), x and y over the
\* bodies b[k], b[k + 1], ..., added to acc.
RECURSIVE COM_Sums(_, _, _)
COM_Sums(b, k, acc) ==
    IF k > Len(b) THEN acc
    ELSE COM_Sums(b, k + 1, [mx |-> acc.mx + b[k].m * b[k].x,
                             my |-> acc.my + b[k].m * b[k].y,
                             x  |-> acc.x + b[k].x,
                             y  |-> acc.y + b[k].y])

\* c is the mass-weighted average position of the n bodies whose sums are s and
\* whose total mass is M, up to the rounding of the n products and the quotient.
COM_IsWeightedAverage(c, s, M, n) ==
    /\ 2 * Abs(c.x * M - s.mx) <= Abs(M) + n * SCALE
    /\ 2 * Abs(c.y * M - s.my) <= Abs(M) + n * SCALE

\* c is the arithmetic mean of the n positions summed in s, up to rounding.
COM_IsMean(c, s, n) ==
    /\ Abs(c.x * n - s.x) <= n
    /\ Abs(c.y * n - s.y) <= n

COM_EqualMasses(b) == \A k \in 1..Len(b) : b[k].m = b[1].m /\ b[k].m >= ONE

COM_Holds(c, b) ==
    /\ COM_IsWeightedAverage(c, COM_Sums(b, 1, [mx |-> 0, my |-> 0, x |-> 0, y |-> 0]),
                             TotalMass(b, 1), Len(b))
    /\ COM_EqualMasses(b) =>
           COM_IsMean(c, COM_Sums(b, 1, [mx |-> 0, my |-> 0, x |-> 0, y |-> 0]), Len(b))
    /\ b = centerOfMassBodies => c = [x |-> Lit(1, 1), y |-> Lit(1, 3)]

\* C11: for every System of non-zero total mass calculateCenterOfMass returns
\* (sum m_i * x_i / sum m_i, sum m_i * y_i / sum m_i); for equal masses that is
\* the arithmetic mean of the positions, and unit masses at (0, 0), (2, 0), (1, 1)
\* give (1, 1/3).
C11_CenterOfMass ==
    \A sys \in LiveSystems :
        TotalMass(Values(heap, sys), 1) # 0 =>
            COM_Holds(calculateCenterOfMass(heap, sys), Values(heap, sys))

\* Three bodies of unequal mass after a step, their center of mass off both axes
\* and away from the mean of their positions.
C11_Witness ==
    /\ pc = "done"
    /\ i >= 1
    /\ Len(state) = 3
    /\ ~COM_EqualMasses(Values(heap, state))
    /\ calculateCenterOfMass(heap, state).x # 0
    /\ calculateCenterOfMass(heap, state).y # 0
    /\ ~COM_IsMean(calculateCenterOfMass(heap, state),
                   COM_Sums(Values(heap, state), 1, [mx |-> 0, my |-> 0, x |-> 0, y |-> 0]), 3)

----------------------------------------------------------------------------
\* C14.  The figure8 preset.
\* The masses of the bodies b are all the same.
SameMasses(b) == \A k \in 1..Len(b) : b[k].m = b[1].m

\* p is zero up to the representation of the n velocity literals it sums (each
\* literal is within half a unit of its decimal, and the masses are 1).
Figure8_ZeroMomentum(p, n) == 2 * Abs(p.px) <= n /\ 2 * Abs(p.py) <= n

\* b is laid out as testFigure8Symmetry requires.
Figure8_Symmetric(b) ==
    /\ b[1].x + b[2].x = 0
    /\ b[1].y + b[2].y = 0
    /\ b[3].x = 0
    /\ b[3].y = 0

\* C14: whenever the caller's System is the figure8 preset, it is three bodies of
\* equal mass with zero total momentum in both components, bodies 0 and 1
\* placed symmetrically about the origin and body 2 at the origin.
C14_Figure8Preset ==
    given = PRESETS.figure8 =>
        /\ Len(bodies) = 3
        /\ SameMasses(Values(heap, bodies))
        /\ Figure8_ZeroMomentum(calculateMomentum(heap, bodies), Len(bodies))
        /\ Figure8_Symmetric(Values(heap, bodies))

\* The preset as the caller's System at the end of a run that moved every body.
C14_Witness ==
    /\ given = PRESETS.figure8
    /\ pc = "done"
    /\ i = MaxSteps
    /\ \A k \in 1..3 : heap[state[k]].x # heap[bodies[k]].x
    /\ heap[bodies[1]].x < 0
    /\ heap[bodies[3]].vx < 0

----------------------------------------------------------------------------
\* C15.  The lagrange preset.
\* The three pairwise distances of b differ by less than 0.1.
Lagrange_Equilateral(d01, d02, d12) ==
    /\ Abs(d01 - d02) < Lit(1, 10)
    /\ Abs(d01 - d12) < Lit(1, 10)
    /\ Abs(d02 - d12) < Lit(1, 10)

\* C15: whenever the caller's System is the lagrange preset, it is three bodies
\* of equal mass whose pairwise distances d01, d02, d12 are within 0.1 of one
\* another.
C15_LagrangePreset ==
    given = PRESETS.lagrange =>
        /\ Len(bodies) = 3
        /\ SameMasses(Values(heap, bodies))
        /\ Lagrange_Equilateral(pairDistance(heap[bodies[1]], heap[bodies[2]]),
                                pairDistance(heap[bodies[1]], heap[bodies[3]]),
                                pairDistance(heap[bodies[2]], heap[bodies[3]]))

\* The preset as the caller's System at the initial instant of a run, its sides
\* of length sqrt(3) up to the three decimals of its literals.
C15_Witness ==
    /\ given = PRESETS.lagrange
    /\ pc = "loop"
    /\ i = 0
    /\ Values(heap, state) = PRESETS.lagrange
    /\ pairDistance(heap[state[1]], heap[state[2]]) > Lit(17, 10)
    /\ pairDistance(heap[state[2]], heap[state[3]]) > Lit(17, 10)
    /\ pairDistance(heap[state[1]], heap[state[2]]) # pairDistance(heap[state[2]], heap[state[3]])

----------------------------------------------------------------------------
\* C16.  Inverse-square scaling.
\* The two bodies b with the second moved to twice its separation from the first.
TwiceApart(b) ==
    << b[1], [b[2] EXCEPT !.x = b[1].x + 2 * (b[2].x - b[1].x),
                          !.y = b[1].y + 2 * (b[2].y - b[1].y)] >>

\* The softening length is at most a tenth of the separation of the two bodies b.
SofteningNegligible(b) ==
    Mul(b[2].x - b[1].x, b[2].x - b[1].x) + Mul(b[2].y - b[1].y, b[2].y - b[1].y)
        >= 100 * Mul(SOFTENING, SOFTENING)

\* ratio is 4 within 15%.
NearFour(ratio) == 100 * Abs(ratio - 4 * ONE) <= 15 * 4 * ONE

\* The acceleration of body 0 of b over that of body 0 of b set twice as far apart.
ScalingRatio(b) ==
    accelerationRatio(computeAccelerations(b, Fresh(<<>>, 2)),
                      computeAccelerations(TwiceApart(b), Fresh(<<>>, 2)))

\* C16: for every System of two bodies a run reaches, separated by d with the
\* softening negligible relative to d and apart along x, the acceleration of
\* body 0 is four times, within 15%, what it is at separation 2d; for the Systems
\* of testAccelerationMagnitude the ratio lies between 3.5 and 4.5.
C16_InverseSquare ==
    /\ \A sys \in LiveSystems :
          (/\ Len(sys) = 2
           /\ SofteningNegligible(Values(heap, sys))
           /\ computeAccelerations(TwiceApart(Values(heap, sys)), Fresh(<<>>, 2))[1].ax # 0)
              => NearFour(ScalingRatio(Values(heap, sys)))
    /\ given = magnitudeBodies1 =>
          /\ TwiceApart(given) = magnitudeBodies2
          /\ ScalingRatio(given) > Lit(35, 10)
          /\ ScalingRatio(given) < Lit(45, 10)

\* Two bodies of unequal mass, off the x axis after a step, whose ratio is not
\* exactly 4: the softening shows.
C16_Witness ==
    /\ pc = "done"
    /\ i >= 1
    /\ Len(state) = 2
    /\ heap[state[1]].m # heap[state[2]].m
    /\ heap[state[1]].y # heap[state[2]].y
    /\ SofteningNegligible(Values(heap, state))
    /\ ScalingRatio(Values(heap, state)) # 4 * ONE
    /\ NearFour(ScalingRatio(Values(heap, state)))

----------------------------------------------------------------------------
\* C17.  No error outcome.
\* The System b has no bodies, or a body whose mass is zero or below.
Degenerate(b) == Len(b) = 0 \/ \E k \in 1..Len(b) : b[k].m <= 0

\* Every field of every body of b is a finite number.
AllFinite(b) ==
    \A k \in 1..Len(b) :
        /\ b[k].x \in Int
        /\ b[k].y \in Int
        /\ b[k].vx \in Int
        /\ b[k].vy \in Int
        /\ b[k].m \in Int

NonFinite == {NaN, Infinity, NegInfinity}

\* No call is refused: runSimulation is before its loop, in it or has returned,
\* every call that returned gave back one body per body passed, with the mass
\* it was passed, and every rk4Step call did the same.
NeverRejects ==
    /\ pc \in {"call", "loop", "done"}
    /\ pc = "done" => i = steps /\ returned # <<>>
    /\ \A k \in 1..Len(returned) :
          /\ Len(returned[k].result) = Len(returned[k].bodies)
          /\ \A n \in 1..Len(returned[k].result) :
                returned[k].result[n].m = returned[k].bodies[n].m
    /\ last.calls > 0 => Len(last.result) = Len(last.input)

\* C17 as stated: no call is refused, and a degenerate System comes back with
\* NaN or an infinity among the returned values.
C17_DegenerateGivesNaN ==
    /\ NeverRejects
    /\ \A k \in 1..Len(returned) :
          Degenerate(returned[k].bodies) => ~AllFinite(returned[k].result)

\* C17: rk4Step and runSimulation refuse no array of numeric bodies, degenerate
\* or not; what they return for a System of finite numbers is finite (no bodies
\* in, no bodies out; a mass of zero or below is carried through), and NaN or
\* an infinity appears only where the arithmetic divides by zero, in
\* calculateCenterOfMass of a System of zero total mass.
C17_NoErrorOutcome ==
    /\ NeverRejects
    /\ \A k \in 1..Len(returned) : AllFinite(returned[k].result)
    /\ pc # "call" =>
          /\ TotalMass(Values(heap, state), 1) = 0 =>
                /\ calculateCenterOfMass(heap, state).x \in NonFinite
                /\ calculateCenterOfMass(heap, state).y \in NonFinite
          /\ TotalMass(Values(heap, state), 1) # 0 =>
                /\ calculateCenterOfMass(heap, state).x \in Int
                /\ calculateCenterOfMass(heap, state).y \in Int

\* A run of MaxSteps steps on two bodies of masses -1 and 1 has returned finite
\* values, the bodies moved, and their center of mass is at infinity.
C17_Witness ==
    /\ pc = "done"
    /\ i = MaxSteps
    /\ Len(given) = 2
    /\ given[1].m < 0
    /\ TotalMass(given, 1) = 0
    /\ returned[Len(returned)].result # given
    /\ AllFinite(returned[Len(returned)].result)
    /\ calculateCenterOfMass(heap, state).x = Infinity
    /\ \E k \in 1..Len(returned) : returned[k].bodies = <<>> /\ returned[k].result = <<>>

----------------------------------------------------------------------------
\* C18.  A run depends on nothing but its own arguments.
SameArguments(a, b) ==
    a.bodies = b.bodies /\ a.steps = b.steps /\ a.dtArg = b.dtArg

\* The addresses of the arrays a and b are disjoint.
Disjoint(a, b) == \A j \in 1..Len(a), k \in 1..Len(b) : a[j] # b[k]

\* C18: a run starts from the System it is given, whatever was run before; calls
\* made with the same System, step count and dt return the same values whatever
\* calls came between or before them; and no body object of an earlier run is
\* part of a later result.
C18_RunsIndependent ==
    /\ (pc = "loop" /\ i = 0) => Values(heap, state) = given
    /\ \A j \in 1..Len(returned), k \in 1..Len(returned) :
          /\ SameArguments(returned[j], returned[k]) =>
                returned[j].result = returned[k].result
          /\ j < k => Disjoint(returned[j].arr, returned[k].arr)

\* The third call of a series repeats the first, on one preset, after a call on
\* the other preset; every call moved its bodies.
C18_Witness ==
    /\ Len(returned) = 3
    /\ Len(returned[1].bodies) = 3
    /\ SameArguments(returned[1], returned[3])
    /\ returned[1].steps = MaxSteps
    /\ returned[1].result # returned[1].bodies
    /\ Len(returned[2].bodies) = Len(returned[1].bodies)
    /\ returned[2].bodies # returned[1].bodies
    /\ returned[2].steps = MaxSteps
    /\ returned[2].result # returned[2].bodies
    /\ returned[2].result # returned[1].result

----------------------------------------------------------------------------
\* C19.  Convergence.
\* a is a run of the figure8 preset of n steps of size d.
Figure8Run(a, n, d) ==
    a.bodies = PRESETS.figure8 /\ a.steps = n /\ a.dtArg = <<d>>

\* The bodies of a and b are pairwise less than 0.1 apart.
Within01(a, b) ==
    \A k \in 1..Len(a) : pairDistance(a[k], b[k]) < Lit(1, 10)

\* C19: the figure8 preset run for 100 steps of 0.01 and for 1000 steps of 0.001
\* ends with every body less than 0.1 from where the other run leaves it.
C19_Convergence ==
    \A j \in 1..Len(returned), k \in 1..Len(returned) :
        (/\ Figure8Run(returned[j], 100, Lit(1, 100))
         /\ Figure8Run(returned[k], 1000, Lit(1, 1000)))
            => Within01(returned[j].result, returned[k].result)

\* Both runs of testRK4Convergence have returned; they end at different points,
\* far from where they began.
C19_Witness ==
    /\ Len(returned) = 2
    /\ Figure8Run(returned[1], 100, Lit(1, 100))
    /\ Figure8Run(returned[2], 1000, Lit(1, 1000))
    /\ returned[1].result # returned[2].result
    /\ ~Within01(returned[1].result, PRESETS.figure8)
    /\ ~Within01(returned[2].result, PRESETS.figure8)

----------------------------------------------------------------------------
\* C21.  Each step is all-or-nothing.
\* The local System is where i steps without interruption bring the initial one.
OnTrajectory == pc # "call" => Values(heap, state) = Iterated(given, i, DtOf(dtArg))

\* Body n of the System v is at its value in to and not at its value in from.
MovedTo(v, n, from, to) == v[n] = to[n] /\ v[n] # from[n]

\* Some bodies of v are where the step from old to new took them and others are
\* where they were before it.
PartlyAdvanced(v, old, new) ==
    \E j \in 1..Len(v), n \in 1..Len(v) : MovedTo(v, j, old, new) /\ MovedTo(v, n, new, old)

\* The new value of one body from its value before the step and its own four
\* stage derivatives.
BodyUpdate(b, a1, a2, a3, a4, d) ==
    [x  |-> b.x  + RK4_Sixth(a1.dx, a2.dx, a3.dx, a4.dx, d),
     y  |-> b.y  + RK4_Sixth(a1.dy, a2.dy, a3.dy, a4.dy, d),
     vx |-> b.vx + RK4_Sixth(a1.dvx, a2.dvx, a3.dvx, a4.dvx, d),
     vy |-> b.vy + RK4_Sixth(a1.dvy, a2.dvy, a3.dvy, a4.dvy, d),
     m  |-> b.m]

\* The Systems a caller can get hold of: its own, the local one of the run, the
\* argument and the value of the last rk4Step call, and what was returned.
Observable ==
    {Values(heap, bodies), Values(heap, state), Values(heap, last.input),
     Values(heap, last.result)} \cup {returned[k].result : k \in 1..Len(returned)}

\* C21: every body of the System rk4Step returns is its value before the step
\* plus the weighted sum of its four stage derivatives, the pre-step System is
\* what it was, the local System is always a whole number of steps from the
\* initial one, and no System the caller can observe has some bodies advanced by
\* the step and others left behind.
C21_AllOrNothing ==
    /\ OnTrajectory
    /\ last.calls > 0 =>
          /\ Values(heap, last.input) = last.before
          /\ \A n \in 1..Len(last.result) :
                heap[last.result[n]]
                   = BodyUpdate(last.before[n], last.k1[n], last.k2[n], last.k3[n],
                                last.k4[n], last.dt)
          /\ LET new == StepValues(last.before, last.dt)
             IN  \A v \in Observable :
                     Len(v) = Len(last.before) => ~PartlyAdvanced(v, last.before, new)

\* In the middle of a run on three bodies, the last step moved every body and
\* changed every velocity: a System left half-way would show.
C21_Witness ==
    /\ pc = "loop"
    /\ 0 < i
    /\ i < steps
    /\ Len(state) = 3
    /\ \A n \in 1..3 :
          MovedTo(Values(heap, state), n, last.before, StepValues(last.before, last.dt))
    /\ \A n \in 1..3 :
          /\ heap[state[n]].x # last.before[n].x
          /\ heap[state[n]].vx # last.before[n].vx
    /\ \A n \in 1..3 :
          MovedTo(Values(heap, last.input), n, Values(heap, state), last.before)

----------------------------------------------------------------------------
\* C22.  Each pair is evaluated once and applied to both bodies.
\* The evaluations ev are one per unordered pair of n bodies: n * (n - 1) / 2 of
\* them, none of a body with itself, no pair twice, no pair left out.
OncePerPair(ev, n) ==
    /\ 2 * Len(ev) = n * (n - 1)
    /\ \A k \in 1..Len(ev) : ev[k].i # ev[k].j /\ {ev[k].i, ev[k].j} \subseteq 1..n
    /\ \A a \in 1..n, c \in 1..n :
          a # c => Cardinality({k \in 1..Len(ev) : {ev[k].i, ev[k].j} = {a, c}}) = 1

\* acc with the one factor of evaluation e applied to both its bodies:
\* +f * m_j * (dx, dy) to body i and -f * m_i * (dx, dy) to body j.
AppliedToBoth(b, acc, e) ==
    [acc EXCEPT ![e.i] = [ax |-> @.ax + Mul(Mul(e.f, b[e.j].m), e.dx),
                          ay |-> @.ay + Mul(Mul(e.f, b[e.j].m), e.dy)],
                ![e.j] = [ax |-> @.ax - Mul(Mul(e.f, b[e.i].m), e.dx),
                          ay |-> @.ay - Mul(Mul(e.f, b[e.i].m), e.dy)]]

\* acc after the evaluations ev[k], ev[k + 1], ... were applied, in order.
RECURSIVE AppliedAll(_, _, _, _)
AppliedAll(b, acc, ev, k) ==
    IF k > Len(ev) THEN acc ELSE AppliedAll(b, AppliedToBoth(b, acc, ev[k]), ev, k + 1)

\* C22: one computeAccelerations call on N bodies evaluates the force factor once
\* per unordered pair, N * (N - 1) / 2 times and never for a body with itself,
\* and what it returns is each of these factors applied to both bodies of its
\* pair with opposite sign.
C22_PairsOnce ==
    \A sys \in LiveSystems :
        /\ OncePerPair(forceEvaluations(Values(heap, sys), <<>>, 1, 2), Len(sys))
        /\ computeAccelerations(heap, sys)
              = AppliedAll(Values(heap, sys),
                           <<>> \o [k \in 1..Len(sys) |-> [ax |-> 0, ay |-> 0]],
                           forceEvaluations(Values(heap, sys), <<>>, 1, 2), 1)

\* Three bodies of unequal mass after a step: three evaluations, the pairs
\* (0, 1), (0, 2), (1, 2) in this order, with three different factors.
C22_Witness ==
    /\ i >= 1
    /\ Len(state) = 3
    /\ Cardinality({heap[state[k]].m : k \in 1..3}) = 2
    /\ Len(forceEvaluations(Values(heap, state), <<>>, 1, 2)) = 3
    /\ forceEvaluations(Values(heap, state), <<>>, 1, 2)[2].i = 1
    /\ forceEvaluations(Values(heap, state), <<>>, 1, 2)[2].j = 3
    /\ Cardinality({forceEvaluations(Values(heap, state), <<>>, 1, 2)[k].f : k \in 1..3}) = 3
    /\ \A k \in 1..3 : forceEvaluations(Values(heap, state), <<>>, 1, 2)[k].f > 0

----------------------------------------------------------------------------
\* C23.  The State Derivative is a pure function.
\* The derivative k holds the accelerations a call made now on the System st
\* returns, which are the sums of the force law taken from zero.
FromScratch(k, st) ==
    /\ accOf(k) = computeAccelerations(heap, st)
    /\ accOf(k) = ForceLaw_All(Values(heap, st))

\* C23: the accelerations each of the four evaluations of an rk4Step call
\* returned are those a call on the same System returns afterwards, summed from
\* zero, whatever evaluations came between; the Systems the evaluations were
\* given hold the values they were built with; and a call on an equal System
\* held in other objects returns equal accelerations.
C23_PureDerivative ==
    /\ last.calls > 0 =>
          /\ FromScratch(last.k1, last.input)
          /\ FromScratch(last.k2, last.state2)
          /\ FromScratch(last.k3, last.state3)
          /\ FromScratch(last.k4, last.state4)
          /\ Values(heap, last.input) = last.before
          /\ Values(heap, last.state2)
                = RK4_Plus(last.before, last.k1, Div(last.dt, 2 * ONE))
          /\ Values(heap, last.state3)
                = RK4_Plus(last.before, last.k2, Div(last.dt, 2 * ONE))
          /\ Values(heap, last.state4) = RK4_Plus(last.before, last.k3, last.dt)
          /\ last.before = given => accOf(last.k1) = computeAccelerations(heap, bodies)
    /\ \A s1 \in LiveSystems, s2 \in LiveSystems :
          Values(heap, s1) = Values(heap, s2)
              => computeAccelerations(heap, s1) = computeAccelerations(heap, s2)

\* After the first step of a run on three bodies: the first evaluation was made
\* on a System equal to the caller's but held in other objects, three more
\* evaluations followed it, and the four returned different accelerations, none
\* of them zero.
C23_Witness ==
    /\ last.calls = 1
    /\ Len(last.input) = 3
    /\ last.before = given
    /\ Addrs(last.input) \cap Addrs(bodies) = {}
    /\ Cardinality({accOf(last.k1), accOf(last.k2), accOf(last.k3), accOf(last.k4)}) = 4
    /\ \A n \in 1..3 : last.k1[n].dvx # 0 /\ last.k2[n].dvx # 0 /\ last.k4[n].dvy # 0

----------------------------------------------------------------------------
\* C24.  Diagnostics never feed back into the Stepper.
\* The Systems in the caller's reach hold the values they had without any
\* diagnostic: the local one is on the trajectory of uninterrupted steps, the
\* caller's is as it was built, a returned one is as it was returned.
Undisturbed ==
    /\ OnTrajectory
    /\ Values(heap, bodies) = given
    /\ \A k \in 1..Len(returned) : Values(heap, returned[k].arr) = returned[k].result

\* C24: a diagnostic call changes neither an object nor the run (its System, its
\* counter, its step size), and with diagnostics of any kind taken before,
\* between and after the steps in any order the System is, state by state,
\* where the steps alone bring it.
C24_NoFeedback ==
    /\ []Undisturbed
    /\ [][diag' # diag => /\ heap' = heap
                          /\ Values(heap', state') = Values(heap, state)
                          /\ <<state, dt, i, pc>>' = <<state, dt, i, pc>>]_vars

\* A run of MaxSteps steps at dt = 0.1 on bodies of unequal mass has returned; the
\* last diagnostic was taken between two of its steps, of a System that had
\* moved and whose center of mass is off the origin.
C24_Witness ==
    /\ pc = "done"
    /\ i = MaxSteps
    /\ dt = Lit(1, 10)
    /\ diag # <<>>
    /\ diag.name = "calculateCenterOfMass"
    /\ diag.at > 0
    /\ diag.at < i
    /\ diag.value.x # 0
    /\ given[1].m # given[2].m
    /\ Values(heap, state) # given
    /\ Values(heap, state) # StepValues(given, dt)

----------------------------------------------------------------------------
\* C25.  Kinetic energy is never negative.
\* No body of the System sys has a negative mass.
NoNegativeMass(sys) == \A k \in 1..Len(sys) : heap[sys[k]].m >= 0

\* C25: in every System whose masses are all non-negative, the figure8 preset
\* and every System rk4Step takes it to among them, the KE calculateEnergy
\* returns is at least 0.
C25_KineticNonNegative ==
    \A sys \in LiveSystems :
        NoNegativeMass(sys) => calculateEnergy(heap, sys).KE >= 0

\* The figure8 preset after 1000 steps of 0.001, as testKineticEnergyPositive
\* steps it: every body moves, with a velocity component below zero, and the
\* kinetic energy is above zero.
C25_Witness ==
    /\ given = PRESETS.figure8
    /\ pc = "loop"
    /\ dt = Lit(1, 1000)
    /\ i = 1000
    /\ \A k \in 1..3 : heap[state[k]].vx < 0 \/ heap[state[k]].vy < 0
    /\ \E k \in 1..3 : heap[state[k]].vx > 0
    /\ calculateEnergy(heap, state).KE > 0

----------------------------------------------------------------------------
\* C26.  Potential energy is negative.
\* Every body of the System sys has a mass above zero.
PositiveMasses(sys) == \A k \in 1..Len(sys) : heap[sys[k]].m > 0

\* C26: for every System of two or more bodies with positive masses, the figure8
\* preset and every System stepping takes it to among them, the PE
\* calculateEnergy returns is below 0.
C26_PotentialNegative ==
    \A sys \in LiveSystems :
        (Len(sys) >= 2 /\ PositiveMasses(sys)) => calculateEnergy(heap, sys).PE < 0

\* The figure8 preset stepped MaxSteps times at dt = 0.1: its bodies have moved
\* and its potential energy outweighs its kinetic energy.
C26_Witness ==
    /\ given = PRESETS.figure8
    /\ pc = "done"
    /\ i = MaxSteps
    /\ dt = Lit(1, 10)
    /\ Values(heap, state) # given
    /\ calculateEnergy(heap, state).PE < 0
    /\ calculateEnergy(heap, state).PE # calculateEnergy(given, GivenArr).PE
    /\ calculateEnergy(heap, state).total < 0

----------------------------------------------------------------------------
\* C27.  Acceleration points toward the other body.
\* The component a of a pull of `pull` per unit of distance has the sign of the
\* coordinate difference d and is zero where d is; it rounds to zero only where
\* pull * |d| is below one unit of the representation.
SignOf(a, d, pull) ==
    /\ d > 0 => a >= 0
    /\ d < 0 => a <= 0
    /\ d = 0 => a = 0
    /\ Mul(pull, Abs(d)) >= 1 => a # 0

\* The acceleration a of body bi is a positive multiple of the vector from bi to
\* bj: each component has the sign of the difference, the two are in the
\* proportion of dx to dy up to the rounding of the two products they come
\* from, and a is not zero.
Toward(a, bi, bj) ==
    /\ SignOf(a.ax, bj.x - bi.x, Mul(ForceLaw_f(bi, bj), bj.m))
    /\ SignOf(a.ay, bj.y - bi.y, Mul(ForceLaw_f(bi, bj), bj.m))
    /\ 2 * Abs(Mul(a.ax, bj.y - bi.y) - Mul(a.ay, bj.x - bi.x))
          <= CeilOnes(Abs(bj.x - bi.x) + Abs(bj.y - bi.y)) + 2
    /\ Mul(a.ax, bj.x - bi.x) + Mul(a.ay, bj.y - bi.y) > 0

\* C27: in every System of two bodies with positive masses the acceleration of
\* each body points to the other one: it is along the vector from the body to the
\* other, each component with the sign of the coordinate difference (other minus
\* self) and zero on an axis on which the two coincide; for the System of
\* testAccelerationDirection a0.x > 0, a1.x < 0 and both a.y = 0.
C27_TowardOther ==
    /\ \A sys \in LiveSystems :
          (Len(sys) = 2 /\ PositiveMasses(sys)) =>
              /\ Toward(computeAccelerations(heap, sys)[1], heap[sys[1]], heap[sys[2]])
              /\ Toward(computeAccelerations(heap, sys)[2], heap[sys[2]], heap[sys[1]])
    /\ given = directionBodies =>
          /\ computeAccelerations(heap, bodies)[1].ax > 0
          /\ computeAccelerations(heap, bodies)[2].ax < 0
          /\ computeAccelerations(heap, bodies)[1].ay = 0
          /\ computeAccelerations(heap, bodies)[2].ay = 0

\* Two bodies of unequal mass after a step, apart on both axes, body 1 to the
\* right of and below body 0: each is pulled toward the other on both axes.
C27_Witness ==
    /\ pc = "done"
    /\ i >= 1
    /\ Len(state) = 2
    /\ heap[state[1]].m # heap[state[2]].m
    /\ heap[state[2]].x > heap[state[1]].x
    /\ heap[state[2]].y < heap[state[1]].y
    /\ computeAccelerations(heap, state)[1].ax > 0
    /\ computeAccelerations(heap, state)[1].ay < 0
    /\ computeAccelerations(heap, state)[2].ax < 0
    /\ computeAccelerations(heap, state)[2].ay > 0

----------------------------------------------------------------------------
\* C28.  The center of mass moves with the total momentum.
\* n * d * p / M: how far a center of mass of momentum p and mass M moves in n
\* steps of size d.
Drift(p, M, n, d) == Div(Mul(n * d, p), M)

\* Units the roundings may put between the center of mass after n steps and
\* its place before them plus the drift: those of C3, and the two roundings of
\* the drift itself with the products calculateMomentum rounds.
DriftUnits(n) == CenterOfMassUnits(n) + 2

\* C28: for every System of non-zero total mass M and total momentum P, and
\* every dt, the center of mass after n rk4Step applications is the initial one
\* moved by n * dt * P / M, up to rounding, whatever forces act between the
\* bodies.
C28_CenterOfMassDrift ==
    (pc # "call" /\ TotalMass(given, 1) # 0) =>
        /\ Abs(calculateCenterOfMass(heap, state).x
                 - calculateCenterOfMass(given, GivenArr).x
                 - Drift(calculateMomentum(given, GivenArr).px, TotalMass(given, 1), i, dt))
              <= DriftUnits(i)
        /\ Abs(calculateCenterOfMass(heap, state).y
                 - calculateCenterOfMass(given, GivenArr).y
                 - Drift(calculateMomentum(given, GivenArr).py, TotalMass(given, 1), i, dt))
              <= DriftUnits(i)

\* Three bodies of unequal mass with momentum in x and y, after MaxSteps steps at
\* dt = 0.1 in which the forces changed every velocity: the center of mass has
\* moved by more than rounding could move it.
C28_Witness ==
    /\ pc = "done"
    /\ i = MaxSteps
    /\ dt = Lit(1, 10)
    /\ Len(state) = 3
    /\ Cardinality({given[k].m : k \in 1..3}) = 2
    /\ \A k \in 1..3 : heap[state[k]].vx # given[k].vx /\ heap[state[k]].vy # given[k].vy
    /\ Abs(Drift(calculateMomentum(given, GivenArr).px, TotalMass(given, 1), i, dt))
          > 2 * DriftUnits(i)
    /\ Abs(Drift(calculateMomentum(given, GivenArr).py, TotalMass(given, 1), i, dt))
          > 2 * DriftUnits(i)
    /\ Abs(calculateCenterOfMass(heap, state).x - calculateCenterOfMass(given, GivenArr).x)
          > DriftUnits(i)

----------------------------------------------------------------------------
\* C29.  Force-free motion is uniform.
\* Body n had no acceleration at any of the four stages of the last step.
ForceFree(n) ==
    \A k \in {last.k1, last.k2, last.k3, last.k4} : k[n].dvx = 0 /\ k[n].dvy = 0

\* The body b is the body a moved for a time d at its own velocity: at
\* (x + vx * d, y + vy * d) up to the rounding of the product and of the weighted
\* sum, with the velocity and the mass of a.
MovedUniformly(a, b, d) ==
    /\ Abs(b.x - (a.x + Mul(a.vx, d))) <= 1
    /\ Abs(b.y - (a.y + Mul(a.vy, d))) <= 1
    /\ b.vx = a.vx
    /\ b.vy = a.vy
    /\ b.m = a.m

\* No other body of the System b than body n has a mass.
AloneOrAmongMassless(b, n) == \A k \in 1..Len(b) : k # n => b[k].m = 0

\* C29: a body with no other body, or with no other body of any mass, has zero
\* acceleration at all four stages, and rk4Step advances every body whose
\* acceleration is zero at all four stages to (x + vx * dt, y + vy * dt) with
\* vx, vy unchanged.
C29_ForceFreeUniform ==
    last.calls > 0 =>
        \A n \in 1..Len(last.input) :
            /\ AloneOrAmongMassless(last.before, n) => ForceFree(n)
            /\ ForceFree(n) =>
                   MovedUniformly(last.before[n], heap[last.result[n]], last.dt)

\* The third run of a series, MaxSteps steps at dt = 0.1 on a single body moving
\* in x and y, has returned; the run before it was on a body of mass 1 and a
\* massless one, of which the first kept its velocity and moved while the
\* second was pulled off its course.
C29_Witness ==
    /\ pc = "done"
    /\ Len(returned) = 3
    /\ i = MaxSteps
    /\ last.dt = Lit(1, 10)
    /\ Len(last.input) = 1
    /\ ForceFree(1)
    /\ heap[last.result[1]].x # last.before[1].x
    /\ heap[last.result[1]].y # last.before[1].y
    /\ Len(returned[2].bodies) = 2
    /\ returned[2].bodies[1].m = 0
    /\ returned[2].bodies[2].m > 0
    /\ returned[2].result[2].vy = returned[2].bodies[2].vy
    /\ returned[2].result[2].y # returned[2].bodies[2].y
    /\ returned[2].result[1].vx # returned[2].bodies[1].vx

----------------------------------------------------------------------------
\* C30.  The counts of a test run and the exit status.
\* The results so far are one per test run so far, in the order of runAll, and
\* the two counters count their verdicts.
OneResultPerTest ==
    /\ Len(suite.results) <= Len(Tests)
    /\ suite.pc = "running" => Len(suite.results) = suite.next - 1
    /\ \A k \in 1..Len(suite.results) : suite.results[k].name = Tests[k]
    /\ suite.passed = Cardinality({k \in 1..Len(suite.results) : suite.results[k].passed})
    /\ suite.failed = Cardinality({k \in 1..Len(suite.results) : ~suite.results[k].passed})

\* C30: after every runAll call, the first or a repeated one, passed + failed =
\* results.length = 16, every test having recorded exactly one result since the
\* counters and results were reset at the start of the call; and the runner
\* exits with status 1 if failed > 0 and with status 0 otherwise.
C30_SuiteCounts ==
    /\ Len(Tests) = 16
    /\ OneResultPerTest
    /\ suite.passed + suite.failed = Len(suite.results)
    /\ suite.pc \in {"returned", "exited"} =>
          /\ Len(suite.value.results) = 16
          /\ suite.value.passed + suite.value.failed = 16
          /\ suite.value = [passed |-> suite.passed, failed |-> suite.failed,
                             results |-> suite.results]
    /\ suite.pc = "exited" =>
          /\ suite.status \in {0, 1}
          /\ suite.status = 1 <=> suite.value.failed > 0

\* The runner has exited with status 1 after a second runAll call on the same
\* TestSuite, in which some tests passed and some failed.
C30_Witness ==
    /\ suite.pc = "exited"
    /\ suite.runs = MaxRuns
    /\ suite.status = 1
    /\ suite.value.passed > 0
    /\ suite.value.failed > 1
    /\ ~suite.results[1].passed
    /\ suite.results[Len(Tests)].passed

====
